---- MODULE Spec2Model ----
(***************************************************************************)
(* F1-Pulse front end: the geocoordinate resolver of the race map          *)
(* (app/components/RaceMap.tsx, getRaceCoordinates), the Compare page      *)
(* (ComparePage: loadComparison, scatterData, comparisonTable, the         *)
(* accuracy panel, route changes), the portrait, logo and display-name     *)
(* utilities (getDriverPortrait, getTeamLogo, formatDriverName) and the    *)
(* requests of the home, drivers, standings, dashboard, driver profile and *)
(* API test pages.  Each part has its own specification; the variables of  *)
(* the other parts stay at their idle values.                              *)
(*                                                                         *)
(* Strings are sequences of UTF-16 code units (Latin-1 range), so that     *)
(* toLowerCase, === and String.prototype.includes are computed, not        *)
(* assumed.  Coordinates are pairs of integers in micro-degrees            *)
(* (26.0325 is 26032500).  A JavaScript value is a record                  *)
(* [type, val]: type is "array" (val the pair), "function", "object" or    *)
(* "null" (val the empty tuple).                                           *)
(***************************************************************************)
EXTENDS Integers, Sequences, FiniteSets, Bags, TLC

VARIABLES
    race,            \* RaceMap: the RaceInfo handed to getRaceCoordinates
    result,          \* RaceMap: the value getRaceCoordinates returned
    locals,          \* RaceMap: circuitMatch, locationMatch, countryMatch of that call
    pc,              \* RaceMap: "start", "done", "recased", or "off" (no map on the page)
    raceIdParam,     \* Compare: params.raceId, a string, or Missing
    effectRan,       \* Compare: the mount effect has run
    requests,        \* Compare: the fetches in flight, a bag of race ids
    data,            \* Compare: the data state (NoData for null)
    loading,         \* Compare: the loading state
    error,           \* Compare: the error state (NoError for null)
    view,            \* Compare: what the last render put on the page
    utilCall,        \* utilities: the last utility call, [fn, arg, ret]
    page,            \* pages: the page that is mounted, or "none"
    ui,              \* pages: the React state of the mounted page
    fetches          \* pages: the requests issued and not yet settled

coordVars == <<race, result, locals, pc>>

compareVars == <<raceIdParam, effectRan, requests, data, loading, error, view>>

utilVars == <<utilCall>>

pageVars == <<page, ui, fetches>>

vars == <<race, result, locals, pc, raceIdParam, effectRan, requests, data, loading, error, view,
          utilCall, page, ui, fetches>>

----------------------------------------------------------------------------
(* Bounds *)

\* how many of the sample circuit / location / country strings are drawn
NumCircuitInputs == 11

NumLocationInputs == 6

NumCountryInputs == 13

\* longest predictions list and longest actual-results list of a response
MaxPredictions == 2

MaxActualResults == 2

\* highest predicted or finishing position of a response
MaxPosition == 2

\* most runs of testConnection that are under way at once
MaxTestRuns == 2

\* most fetches of the Compare page in flight when the route changes
MaxOutstanding == 2

\* the edits of the custom-scenario lineup the model follows, and the rows
\* and drivers they touch
MaxLineupEdits == 2

MaxEditedRow == 2

\* slice(0, 20): the rows the lineup is filled with when the drivers load
InitialLineupSize == 20

\* Math.min(20, ...): the largest value the Grid Position input stores
MaxGridPosition == 20

Min(a, b) == IF a <= b THEN a ELSE b

Max(a, b) == IF a >= b THEN a ELSE b

Minimum(S) == CHOOSE x \in S : \A y \in S : x <= y

----------------------------------------------------------------------------
(* JavaScript values and strings *)

Null == [type |-> "null", val |-> <<>>]

Arr(c) == [type |-> "array", val |-> c]

Fn == [type |-> "function", val |-> <<>>]

Obj == [type |-> "object", val |-> <<>>]

\* no utility has been called
NoCall == [fn |-> "none", arg |-> <<>>, ret |-> Null]

UtilsIdle == utilCall = NoCall

\* no data-loading page is mounted
PagesIdle ==
    /\ page = "none"
    /\ ui = <<>>
    /\ fetches = <<>>

\* ToBoolean: null and undefined are falsy, every array, function and object is truthy
Truthy(v) == v.type # "null"

\* String.prototype.toLowerCase on one code unit of the Latin-1 range
LowerUnit(c) ==
    IF (c >= 65 /\ c <= 90) \/ (c >= 192 /\ c <= 214) \/ (c >= 216 /\ c <= 222)
    THEN c + 32 ELSE c

toLowerCase(s) == [i \in 1..Len(s) |-> LowerUnit(s[i])]

\* String.prototype.toUpperCase on one code unit (letters whose upper case
\* is again one Latin-1 code unit)
UpperUnit(c) ==
    IF (c >= 97 /\ c <= 122) \/ (c >= 224 /\ c <= 246) \/ (c >= 248 /\ c <= 254)
    THEN c - 32 ELSE c

toUpperCase(s) == [i \in 1..Len(s) |-> UpperUnit(s[i])]

\* s.includes(t): t occurs in s as a contiguous substring
includes(s, t) ==
    \E i \in 0..(Len(s) - Len(t)) : \A j \in 1..Len(t) : s[i + j] = t[j]

----------------------------------------------------------------------------
(* The static tables, in source (insertion) order *)

CIRCUIT_COORDINATES == <<
    \* 1: 'Bahrain International Circuit': [26.0325, 50.510556]
    [key |-> <<66, 97, 104, 114, 97, 105, 110, 32, 73, 110, 116, 101, 114, 110, 97, 116, 105, 111, 110, 97, 108, 32, 67, 105, 114, 99, 117, 105, 116>>,
     coords |-> <<26032500, 50510556>>],
    \* 2: 'Bahrain': [26.0325, 50.510556]
    [key |-> <<66, 97, 104, 114, 97, 105, 110>>,
     coords |-> <<26032500, 50510556>>],
    \* 3: 'Sakhir': [26.0325, 50.510556]
    [key |-> <<83, 97, 107, 104, 105, 114>>,
     coords |-> <<26032500, 50510556>>],
    \* 4: 'Jeddah Corniche Circuit': [21.6319, 39.1044]
    [key |-> <<74, 101, 100, 100, 97, 104, 32, 67, 111, 114, 110, 105, 99, 104, 101, 32, 67, 105, 114, 99, 117, 105, 116>>,
     coords |-> <<21631900, 39104400>>],
    \* 5: 'Saudi Arabia': [21.6319, 39.1044]
    [key |-> <<83, 97, 117, 100, 105, 32, 65, 114, 97, 98, 105, 97>>,
     coords |-> <<21631900, 39104400>>],
    \* 6: 'Jeddah': [21.6319, 39.1044]
    [key |-> <<74, 101, 100, 100, 97, 104>>,
     coords |-> <<21631900, 39104400>>],
    \* 7: 'Albert Park Circuit': [-37.849722, 144.968333]
    [key |-> <<65, 108, 98, 101, 114, 116, 32, 80, 97, 114, 107, 32, 67, 105, 114, 99, 117, 105, 116>>,
     coords |-> <<-37849722, 144968333>>],
    \* 8: 'Australia': [-37.849722, 144.968333]
    [key |-> <<65, 117, 115, 116, 114, 97, 108, 105, 97>>,
     coords |-> <<-37849722, 144968333>>],
    \* 9: 'Melbourne': [-37.849722, 144.968333]
    [key |-> <<77, 101, 108, 98, 111, 117, 114, 110, 101>>,
     coords |-> <<-37849722, 144968333>>],
    \* 10: 'Shanghai International Circuit': [31.3389, 121.2200]
    [key |-> <<83, 104, 97, 110, 103, 104, 97, 105, 32, 73, 110, 116, 101, 114, 110, 97, 116, 105, 111, 110, 97, 108, 32, 67, 105, 114, 99, 117, 105, 116>>,
     coords |-> <<31338900, 121220000>>],
    \* 11: 'China': [31.3389, 121.2200]
    [key |-> <<67, 104, 105, 110, 97>>,
     coords |-> <<31338900, 121220000>>],
    \* 12: 'Shanghai': [31.3389, 121.2200]
    [key |-> <<83, 104, 97, 110, 103, 104, 97, 105>>,
     coords |-> <<31338900, 121220000>>],
    \* 13: 'Suzuka International Racing Course': [34.843056, 136.540556]
    [key |-> <<83, 117, 122, 117, 107, 97, 32, 73, 110, 116, 101, 114, 110, 97, 116, 105, 111, 110, 97, 108, 32, 82, 97, 99, 105, 110, 103, 32, 67, 111, 117, 114, 115, 101>>,
     coords |-> <<34843056, 136540556>>],
    \* 14: 'Japan': [34.843056, 136.540556]
    [key |-> <<74, 97, 112, 97, 110>>,
     coords |-> <<34843056, 136540556>>],
    \* 15: 'Suzuka': [34.843056, 136.540556]
    [key |-> <<83, 117, 122, 117, 107, 97>>,
     coords |-> <<34843056, 136540556>>],
    \* 16: 'Miami International Autodrome': [25.9581, -80.2389]
    [key |-> <<77, 105, 97, 109, 105, 32, 73, 110, 116, 101, 114, 110, 97, 116, 105, 111, 110, 97, 108, 32, 65, 117, 116, 111, 100, 114, 111, 109, 101>>,
     coords |-> <<25958100, -80238900>>],
    \* 17: 'Miami': [25.9581, -80.2389]
    [key |-> <<77, 105, 97, 109, 105>>,
     coords |-> <<25958100, -80238900>>],
    \* 18: 'Autodromo Enzo e Dino Ferrari': [44.3439, 11.7167]
    [key |-> <<65, 117, 116, 111, 100, 114, 111, 109, 111, 32, 69, 110, 122, 111, 32, 101, 32, 68, 105, 110, 111, 32, 70, 101, 114, 114, 97, 114, 105>>,
     coords |-> <<44343900, 11716700>>],
    \* 19: 'Imola': [44.3439, 11.7167]
    [key |-> <<73, 109, 111, 108, 97>>,
     coords |-> <<44343900, 11716700>>],
    \* 20: 'Emilia Romagna': [44.3439, 11.7167]
    [key |-> <<69, 109, 105, 108, 105, 97, 32, 82, 111, 109, 97, 103, 110, 97>>,
     coords |-> <<44343900, 11716700>>],
    \* 21: 'Circuit de Monaco': [43.734722, 7.420556]
    [key |-> <<67, 105, 114, 99, 117, 105, 116, 32, 100, 101, 32, 77, 111, 110, 97, 99, 111>>,
     coords |-> <<43734722, 7420556>>],
    \* 22: 'Monaco': [43.734722, 7.420556]
    [key |-> <<77, 111, 110, 97, 99, 111>>,
     coords |-> <<43734722, 7420556>>],
    \* 23: 'Circuit de Barcelona-Catalunya': [41.57, 2.261111]
    [key |-> <<67, 105, 114, 99, 117, 105, 116, 32, 100, 101, 32, 66, 97, 114, 99, 101, 108, 111, 110, 97, 45, 67, 97, 116, 97, 108, 117, 110, 121, 97>>,
     coords |-> <<41570000, 2261111>>],
    \* 24: 'Spain': [41.57, 2.261111]
    [key |-> <<83, 112, 97, 105, 110>>,
     coords |-> <<41570000, 2261111>>],
    \* 25: 'Barcelona': [41.57, 2.261111]
    [key |-> <<66, 97, 114, 99, 101, 108, 111, 110, 97>>,
     coords |-> <<41570000, 2261111>>],
    \* 26: 'Catalunya': [41.57, 2.261111]
    [key |-> <<67, 97, 116, 97, 108, 117, 110, 121, 97>>,
     coords |-> <<41570000, 2261111>>],
    \* 27: 'Circuit Gilles-Villeneuve': [45.505833, -73.526667]
    [key |-> <<67, 105, 114, 99, 117, 105, 116, 32, 71, 105, 108, 108, 101, 115, 45, 86, 105, 108, 108, 101, 110, 101, 117, 118, 101>>,
     coords |-> <<45505833, -73526667>>],
    \* 28: 'Canada': [45.505833, -73.526667]
    [key |-> <<67, 97, 110, 97, 100, 97>>,
     coords |-> <<45505833, -73526667>>],
    \* 29: 'Montreal': [45.505833, -73.526667]
    [key |-> <<77, 111, 110, 116, 114, 101, 97, 108>>,
     coords |-> <<45505833, -73526667>>],
    \* 30: 'Red Bull Ring': [47.2197, 14.7647]
    [key |-> <<82, 101, 100, 32, 66, 117, 108, 108, 32, 82, 105, 110, 103>>,
     coords |-> <<47219700, 14764700>>],
    \* 31: 'Austria': [47.2197, 14.7647]
    [key |-> <<65, 117, 115, 116, 114, 105, 97>>,
     coords |-> <<47219700, 14764700>>],
    \* 32: 'Spielberg': [47.2197, 14.7647]
    [key |-> <<83, 112, 105, 101, 108, 98, 101, 114, 103>>,
     coords |-> <<47219700, 14764700>>],
    \* 33: 'Silverstone Circuit': [52.071, -1.016]
    [key |-> <<83, 105, 108, 118, 101, 114, 115, 116, 111, 110, 101, 32, 67, 105, 114, 99, 117, 105, 116>>,
     coords |-> <<52071000, -1016000>>],
    \* 34: 'United Kingdom': [52.071, -1.016]
    [key |-> <<85, 110, 105, 116, 101, 100, 32, 75, 105, 110, 103, 100, 111, 109>>,
     coords |-> <<52071000, -1016000>>],
    \* 35: 'Silverstone': [52.071, -1.016]
    [key |-> <<83, 105, 108, 118, 101, 114, 115, 116, 111, 110, 101>>,
     coords |-> <<52071000, -1016000>>],
    \* 36: 'Great Britain': [52.071, -1.016]
    [key |-> <<71, 114, 101, 97, 116, 32, 66, 114, 105, 116, 97, 105, 110>>,
     coords |-> <<52071000, -1016000>>],
    \* 37: 'Hungaroring': [47.578889, 19.248611]
    [key |-> <<72, 117, 110, 103, 97, 114, 111, 114, 105, 110, 103>>,
     coords |-> <<47578889, 19248611>>],
    \* 38: 'Hungary': [47.578889, 19.248611]
    [key |-> <<72, 117, 110, 103, 97, 114, 121>>,
     coords |-> <<47578889, 19248611>>],
    \* 39: 'Budapest': [47.578889, 19.248611]
    [key |-> <<66, 117, 100, 97, 112, 101, 115, 116>>,
     coords |-> <<47578889, 19248611>>],
    \* 40: 'Circuit de Spa-Francorchamps': [50.437222, 5.971389]
    [key |-> <<67, 105, 114, 99, 117, 105, 116, 32, 100, 101, 32, 83, 112, 97, 45, 70, 114, 97, 110, 99, 111, 114, 99, 104, 97, 109, 112, 115>>,
     coords |-> <<50437222, 5971389>>],
    \* 41: 'Belgium': [50.437222, 5.971389]
    [key |-> <<66, 101, 108, 103, 105, 117, 109>>,
     coords |-> <<50437222, 5971389>>],
    \* 42: 'Spa': [50.437222, 5.971389]
    [key |-> <<83, 112, 97>>,
     coords |-> <<50437222, 5971389>>],
    \* 43: 'Spa-Francorchamps': [50.437222, 5.971389]
    [key |-> <<83, 112, 97, 45, 70, 114, 97, 110, 99, 111, 114, 99, 104, 97, 109, 112, 115>>,
     coords |-> <<50437222, 5971389>>],
    \* 44: 'Circuit Zandvoort': [52.3888, 4.5409]
    [key |-> <<67, 105, 114, 99, 117, 105, 116, 32, 90, 97, 110, 100, 118, 111, 111, 114, 116>>,
     coords |-> <<52388800, 4540900>>],
    \* 45: 'Netherlands': [52.3888, 4.5409]
    [key |-> <<78, 101, 116, 104, 101, 114, 108, 97, 110, 100, 115>>,
     coords |-> <<52388800, 4540900>>],
    \* 46: 'Zandvoort': [52.3888, 4.5409]
    [key |-> <<90, 97, 110, 100, 118, 111, 111, 114, 116>>,
     coords |-> <<52388800, 4540900>>],
    \* 47: 'Dutch': [52.3888, 4.5409]
    [key |-> <<68, 117, 116, 99, 104>>,
     coords |-> <<52388800, 4540900>>],
    \* 48: 'Autodromo Nazionale Monza': [45.620556, 9.289444]
    [key |-> <<65, 117, 116, 111, 100, 114, 111, 109, 111, 32, 78, 97, 122, 105, 111, 110, 97, 108, 101, 32, 77, 111, 110, 122, 97>>,
     coords |-> <<45620556, 9289444>>],
    \* 49: 'Monza': [45.620556, 9.289444]
    [key |-> <<77, 111, 110, 122, 97>>,
     coords |-> <<45620556, 9289444>>],
    \* 50: 'Italy (Monza)': [45.620556, 9.289444]
    [key |-> <<73, 116, 97, 108, 121, 32, 40, 77, 111, 110, 122, 97, 41>>,
     coords |-> <<45620556, 9289444>>],
    \* 51: 'Baku City Circuit': [40.3725, 49.8533]
    [key |-> <<66, 97, 107, 117, 32, 67, 105, 116, 121, 32, 67, 105, 114, 99, 117, 105, 116>>,
     coords |-> <<40372500, 49853300>>],
    \* 52: 'Azerbaijan': [40.3725, 49.8533]
    [key |-> <<65, 122, 101, 114, 98, 97, 105, 106, 97, 110>>,
     coords |-> <<40372500, 49853300>>],
    \* 53: 'Baku': [40.3725, 49.8533]
    [key |-> <<66, 97, 107, 117>>,
     coords |-> <<40372500, 49853300>>],
    \* 54: 'Marina Bay Street Circuit': [1.291403, 103.864147]
    [key |-> <<77, 97, 114, 105, 110, 97, 32, 66, 97, 121, 32, 83, 116, 114, 101, 101, 116, 32, 67, 105, 114, 99, 117, 105, 116>>,
     coords |-> <<1291403, 103864147>>],
    \* 55: 'Singapore': [1.291403, 103.864147]
    [key |-> <<83, 105, 110, 103, 97, 112, 111, 114, 101>>,
     coords |-> <<1291403, 103864147>>],
    \* 56: 'Marina Bay': [1.291403, 103.864147]
    [key |-> <<77, 97, 114, 105, 110, 97, 32, 66, 97, 121>>,
     coords |-> <<1291403, 103864147>>],
    \* 57: 'Circuit of the Americas': [30.1328, -97.6411]
    [key |-> <<67, 105, 114, 99, 117, 105, 116, 32, 111, 102, 32, 116, 104, 101, 32, 65, 109, 101, 114, 105, 99, 97, 115>>,
     coords |-> <<30132800, -97641100>>],
    \* 58: 'COTA': [30.1328, -97.6411]
    [key |-> <<67, 79, 84, 65>>,
     coords |-> <<30132800, -97641100>>],
    \* 59: 'Austin': [30.1328, -97.6411]
    [key |-> <<65, 117, 115, 116, 105, 110>>,
     coords |-> <<30132800, -97641100>>],
    \* 60: 'Texas': [30.1328, -97.6411]
    [key |-> <<84, 101, 120, 97, 115>>,
     coords |-> <<30132800, -97641100>>],
    \* 61: 'Las Vegas Strip Circuit': [36.1017, -115.1605]
    [key |-> <<76, 97, 115, 32, 86, 101, 103, 97, 115, 32, 83, 116, 114, 105, 112, 32, 67, 105, 114, 99, 117, 105, 116>>,
     coords |-> <<36101700, -115160500>>],
    \* 62: 'Las Vegas': [36.1017, -115.1605]
    [key |-> <<76, 97, 115, 32, 86, 101, 103, 97, 115>>,
     coords |-> <<36101700, -115160500>>],
    \* 63: 'Vegas': [36.1017, -115.1605]
    [key |-> <<86, 101, 103, 97, 115>>,
     coords |-> <<36101700, -115160500>>],
    \* 64: 'Nevada': [36.1017, -115.1605]
    [key |-> <<78, 101, 118, 97, 100, 97>>,
     coords |-> <<36101700, -115160500>>],
    \* 65: 'Aut?dromo Hermanos Rodr?guez': [19.4042, -99.0907]
    [key |-> <<65, 117, 116, 243, 100, 114, 111, 109, 111, 32, 72, 101, 114, 109, 97, 110, 111, 115, 32, 82, 111, 100, 114, 237, 103, 117, 101, 122>>,
     coords |-> <<19404200, -99090700>>],
    \* 66: 'Mexico': [19.4042, -99.0907]
    [key |-> <<77, 101, 120, 105, 99, 111>>,
     coords |-> <<19404200, -99090700>>],
    \* 67: 'Mexico City': [19.4042, -99.0907]
    [key |-> <<77, 101, 120, 105, 99, 111, 32, 67, 105, 116, 121>>,
     coords |-> <<19404200, -99090700>>],
    \* 68: 'Aut?dromo Jos? Carlos Pace': [-23.703611, -46.699722]
    [key |-> <<65, 117, 116, 243, 100, 114, 111, 109, 111, 32, 74, 111, 115, 233, 32, 67, 97, 114, 108, 111, 115, 32, 80, 97, 99, 101>>,
     coords |-> <<-23703611, -46699722>>],
    \* 69: 'Brazil': [-23.703611, -46.699722]
    [key |-> <<66, 114, 97, 122, 105, 108>>,
     coords |-> <<-23703611, -46699722>>],
    \* 70: 'S?o Paulo': [-23.703611, -46.699722]
    [key |-> <<83, 227, 111, 32, 80, 97, 117, 108, 111>>,
     coords |-> <<-23703611, -46699722>>],
    \* 71: 'Interlagos': [-23.703611, -46.699722]
    [key |-> <<73, 110, 116, 101, 114, 108, 97, 103, 111, 115>>,
     coords |-> <<-23703611, -46699722>>],
    \* 72: 'Lusail International Circuit': [25.4901, 51.4542]
    [key |-> <<76, 117, 115, 97, 105, 108, 32, 73, 110, 116, 101, 114, 110, 97, 116, 105, 111, 110, 97, 108, 32, 67, 105, 114, 99, 117, 105, 116>>,
     coords |-> <<25490100, 51454200>>],
    \* 73: 'Qatar': [25.4901, 51.4542]
    [key |-> <<81, 97, 116, 97, 114>>,
     coords |-> <<25490100, 51454200>>],
    \* 74: 'Lusail': [25.4901, 51.4542]
    [key |-> <<76, 117, 115, 97, 105, 108>>,
     coords |-> <<25490100, 51454200>>],
    \* 75: 'Yas Marina Circuit': [24.467222, 54.603056]
    [key |-> <<89, 97, 115, 32, 77, 97, 114, 105, 110, 97, 32, 67, 105, 114, 99, 117, 105, 116>>,
     coords |-> <<24467222, 54603056>>],
    \* 76: 'Abu Dhabi': [24.467222, 54.603056]
    [key |-> <<65, 98, 117, 32, 68, 104, 97, 98, 105>>,
     coords |-> <<24467222, 54603056>>],
    \* 77: 'Yas Marina': [24.467222, 54.603056]
    [key |-> <<89, 97, 115, 32, 77, 97, 114, 105, 110, 97>>,
     coords |-> <<24467222, 54603056>>],
    \* 78: 'United Arab Emirates': [24.467222, 54.603056]
    [key |-> <<85, 110, 105, 116, 101, 100, 32, 65, 114, 97, 98, 32, 69, 109, 105, 114, 97, 116, 101, 115>>,
     coords |-> <<24467222, 54603056>>]
>>

COUNTRY_COORDINATES == <<
    \* 1: 'Bahrain': [26.0325, 50.510556]
    [key |-> <<66, 97, 104, 114, 97, 105, 110>>,
     coords |-> <<26032500, 50510556>>],
    \* 2: 'Saudi Arabia': [21.6319, 39.1044]
    [key |-> <<83, 97, 117, 100, 105, 32, 65, 114, 97, 98, 105, 97>>,
     coords |-> <<21631900, 39104400>>],
    \* 3: 'Australia': [-37.849722, 144.968333]
    [key |-> <<65, 117, 115, 116, 114, 97, 108, 105, 97>>,
     coords |-> <<-37849722, 144968333>>],
    \* 4: 'China': [31.3389, 121.2200]
    [key |-> <<67, 104, 105, 110, 97>>,
     coords |-> <<31338900, 121220000>>],
    \* 5: 'Japan': [34.843056, 136.540556]
    [key |-> <<74, 97, 112, 97, 110>>,
     coords |-> <<34843056, 136540556>>],
    \* 6: 'United States': [30.1328, -97.6411]
    [key |-> <<85, 110, 105, 116, 101, 100, 32, 83, 116, 97, 116, 101, 115>>,
     coords |-> <<30132800, -97641100>>],
    \* 7: 'Italy': [44.3439, 11.7167]
    [key |-> <<73, 116, 97, 108, 121>>,
     coords |-> <<44343900, 11716700>>],
    \* 8: 'Monaco': [43.734722, 7.420556]
    [key |-> <<77, 111, 110, 97, 99, 111>>,
     coords |-> <<43734722, 7420556>>],
    \* 9: 'Spain': [41.57, 2.261111]
    [key |-> <<83, 112, 97, 105, 110>>,
     coords |-> <<41570000, 2261111>>],
    \* 10: 'Canada': [45.505833, -73.526667]
    [key |-> <<67, 97, 110, 97, 100, 97>>,
     coords |-> <<45505833, -73526667>>],
    \* 11: 'Austria': [47.2197, 14.7647]
    [key |-> <<65, 117, 115, 116, 114, 105, 97>>,
     coords |-> <<47219700, 14764700>>],
    \* 12: 'United Kingdom': [52.071, -1.016]
    [key |-> <<85, 110, 105, 116, 101, 100, 32, 75, 105, 110, 103, 100, 111, 109>>,
     coords |-> <<52071000, -1016000>>],
    \* 13: 'Hungary': [47.578889, 19.248611]
    [key |-> <<72, 117, 110, 103, 97, 114, 121>>,
     coords |-> <<47578889, 19248611>>],
    \* 14: 'Belgium': [50.437222, 5.971389]
    [key |-> <<66, 101, 108, 103, 105, 117, 109>>,
     coords |-> <<50437222, 5971389>>],
    \* 15: 'Netherlands': [52.3888, 4.5409]
    [key |-> <<78, 101, 116, 104, 101, 114, 108, 97, 110, 100, 115>>,
     coords |-> <<52388800, 4540900>>],
    \* 16: 'Azerbaijan': [40.3725, 49.8533]
    [key |-> <<65, 122, 101, 114, 98, 97, 105, 106, 97, 110>>,
     coords |-> <<40372500, 49853300>>],
    \* 17: 'Singapore': [1.291403, 103.864147]
    [key |-> <<83, 105, 110, 103, 97, 112, 111, 114, 101>>,
     coords |-> <<1291403, 103864147>>],
    \* 18: 'Mexico': [19.4042, -99.0907]
    [key |-> <<77, 101, 120, 105, 99, 111>>,
     coords |-> <<19404200, -99090700>>],
    \* 19: 'Brazil': [-23.703611, -46.699722]
    [key |-> <<66, 114, 97, 122, 105, 108>>,
     coords |-> <<-23703611, -46699722>>],
    \* 20: 'Qatar': [25.4901, 51.4542]
    [key |-> <<81, 97, 116, 97, 114>>,
     coords |-> <<25490100, 51454200>>],
    \* 21: 'United Arab Emirates': [24.467222, 54.603056]
    [key |-> <<85, 110, 105, 116, 101, 100, 32, 65, 114, 97, 98, 32, 69, 109, 105, 114, 97, 116, 101, 115>>,
     coords |-> <<24467222, 54603056>>]
>>

\* Object.entries(mapping): own enumerable string keys in insertion order
\* (no key is an integer index, so insertion order is the iteration order)
Entries(mapping) == mapping

\* names of the function-valued properties every object literal inherits
\* from Object.prototype
ObjectPrototypeFunctions == <<
    <<99, 111, 110, 115, 116, 114, 117, 99, 116, 111, 114>>,  \* 1: 'constructor'
    <<95, 95, 100, 101, 102, 105, 110, 101, 71, 101, 116, 116, 101, 114, 95, 95>>,  \* 2: '__defineGetter__'
    <<95, 95, 100, 101, 102, 105, 110, 101, 83, 101, 116, 116, 101, 114, 95, 95>>,  \* 3: '__defineSetter__'
    <<104, 97, 115, 79, 119, 110, 80, 114, 111, 112, 101, 114, 116, 121>>,  \* 4: 'hasOwnProperty'
    <<95, 95, 108, 111, 111, 107, 117, 112, 71, 101, 116, 116, 101, 114, 95, 95>>,  \* 5: '__lookupGetter__'
    <<95, 95, 108, 111, 111, 107, 117, 112, 83, 101, 116, 116, 101, 114, 95, 95>>,  \* 6: '__lookupSetter__'
    <<105, 115, 80, 114, 111, 116, 111, 116, 121, 112, 101, 79, 102>>,  \* 7: 'isPrototypeOf'
    <<112, 114, 111, 112, 101, 114, 116, 121, 73, 115, 69, 110, 117, 109, 101, 114, 97, 98, 108, 101>>,  \* 8: 'propertyIsEnumerable'
    <<116, 111, 83, 116, 114, 105, 110, 103>>,  \* 9: 'toString'
    <<118, 97, 108, 117, 101, 79, 102>>,  \* 10: 'valueOf'
    <<116, 111, 76, 111, 99, 97, 108, 101, 83, 116, 114, 105, 110, 103>>  \* 11: 'toLocaleString'
>>

\* '__proto__': the accessor inherited from Object.prototype
ProtoAccessor == <<95, 95, 112, 114, 111, 116, 111, 95, 95>>

OwnIndex(mapping, k) == {i \in 1..Len(mapping) : mapping[i].key = k}

\* mapping[k], a property read: the own property if there is one, else the
\* property found on the prototype chain, else undefined
Get(mapping, k) ==
    IF OwnIndex(mapping, k) # {}
    THEN Arr(mapping[CHOOSE i \in OwnIndex(mapping, k) : TRUE].coords)
    ELSE IF \E n \in 1..Len(ObjectPrototypeFunctions) : ObjectPrototypeFunctions[n] = k
    THEN Fn
    ELSE IF k = ProtoAccessor
    THEN Obj
    ELSE Null

----------------------------------------------------------------------------
(* getRaceCoordinates *)

RECURSIVE ExactLoop(_, _, _)
\* first loop of findKey: the first entry whose lower-cased key equals lowerSearch
ExactLoop(lowerSearch, entries, i) ==
    IF i > Len(entries) THEN Null
    ELSE IF toLowerCase(entries[i].key) = lowerSearch THEN Arr(entries[i].coords)
    ELSE ExactLoop(lowerSearch, entries, i + 1)

RECURSIVE PartialLoopDown(_, _, _)
PartialLoopDown(lowerSearch, entries, i) ==
    IF i < 1 THEN Null
    ELSE LET lowerKey == toLowerCase(entries[i].key) IN
         IF includes(lowerSearch, lowerKey) \/ includes(lowerKey, lowerSearch)
         THEN Arr(entries[i].coords)
         ELSE PartialLoopDown(lowerSearch, entries, i - 1)

\* the partial-match loop walking the table backwards: the last matching key wins
PartialLoop_LastMatch(lowerSearch, entries, i) ==
    PartialLoopDown(lowerSearch, entries, Len(entries) + 1 - i)

RECURSIVE PartialLoop(_, _, _)
\* second loop of findKey: the first entry whose lower-cased key is contained
\* in lowerSearch or contains it
PartialLoop(lowerSearch, entries, i) ==
    IF i > Len(entries) THEN Null
    ELSE LET lowerKey == toLowerCase(entries[i].key) IN
         IF includes(lowerSearch, lowerKey) \/ includes(lowerKey, lowerSearch)
         THEN Arr(entries[i].coords)
         ELSE PartialLoop(lowerSearch, entries, i + 1)

\* findKey with the two loops in the wrong order: partial match before exact
findKey_PartialFirst(searchValue, mapping) ==
    IF searchValue = <<>> THEN Null
    ELSE LET lowerSearch == toLowerCase(searchValue)
             partial == PartialLoop(lowerSearch, Entries(mapping), 1)
         IN  IF partial # Null THEN partial
             ELSE ExactLoop(lowerSearch, Entries(mapping), 1)

findKey(searchValue, mapping) ==
    IF searchValue = <<>> THEN Null
    ELSE LET lowerSearch == toLowerCase(searchValue)
             exact == ExactLoop(lowerSearch, Entries(mapping), 1)
         IN  IF exact # Null THEN exact
             ELSE PartialLoop(lowerSearch, Entries(mapping), 1)

\* a local of getRaceCoordinates that was never assigned because the function
\* returned before reaching its declaration
Unset == [type |-> "unset", val |-> <<>>]

\* getRaceCoordinates with the location tried before the circuit
getRaceCoordinates_LocationFirst(r) ==
    LET locationMatch == findKey(r.location, CIRCUIT_COORDINATES) IN
    IF Truthy(locationMatch)
    THEN [ret |-> locationMatch, circuitMatch |-> Unset,
          locationMatch |-> locationMatch, countryMatch |-> Unset]
    ELSE LET circuitMatch == findKey(r.circuit, CIRCUIT_COORDINATES) IN
    IF Truthy(circuitMatch)
    THEN [ret |-> circuitMatch, circuitMatch |-> circuitMatch,
          locationMatch |-> locationMatch, countryMatch |-> Unset]
    ELSE IF Truthy(Get(COUNTRY_COORDINATES, r.country))
    THEN [ret |-> Get(COUNTRY_COORDINATES, r.country), circuitMatch |-> circuitMatch,
          locationMatch |-> locationMatch, countryMatch |-> Unset]
    ELSE LET countryMatch == findKey(r.country, COUNTRY_COORDINATES) IN
    IF Truthy(countryMatch)
    THEN [ret |-> countryMatch, circuitMatch |-> circuitMatch,
          locationMatch |-> locationMatch, countryMatch |-> countryMatch]
    ELSE [ret |-> Arr(<<20000000, 0>>), circuitMatch |-> circuitMatch,
          locationMatch |-> locationMatch, countryMatch |-> countryMatch]

\* one call of getRaceCoordinates: the value returned (ret) and the locals
\* circuitMatch, locationMatch, countryMatch as they stand at the return
getRaceCoordinates(r) ==
    LET circuitMatch == findKey(r.circuit, CIRCUIT_COORDINATES) IN
    IF Truthy(circuitMatch)
    THEN [ret |-> circuitMatch, circuitMatch |-> circuitMatch,
          locationMatch |-> Unset, countryMatch |-> Unset]
    ELSE LET locationMatch == findKey(r.location, CIRCUIT_COORDINATES) IN
    IF Truthy(locationMatch)
    THEN [ret |-> locationMatch, circuitMatch |-> circuitMatch,
          locationMatch |-> locationMatch, countryMatch |-> Unset]
    ELSE IF Truthy(Get(COUNTRY_COORDINATES, r.country))
    THEN [ret |-> Get(COUNTRY_COORDINATES, r.country), circuitMatch |-> circuitMatch,
          locationMatch |-> locationMatch, countryMatch |-> Unset]
    ELSE LET countryMatch == findKey(r.country, COUNTRY_COORDINATES) IN
    IF Truthy(countryMatch)
    THEN [ret |-> countryMatch, circuitMatch |-> circuitMatch,
          locationMatch |-> locationMatch, countryMatch |-> countryMatch]
    ELSE [ret |-> Arr(<<20000000, 0>>), circuitMatch |-> circuitMatch,
          locationMatch |-> locationMatch, countryMatch |-> countryMatch]

----------------------------------------------------------------------------
(* Compare page: state, derived view data and rendering *)

Missing == <<-1>>

NoError == "null"

Drivers == {"A", "B", "C"}

Teams == {"T"}

Abs(x) == IF x < 0 THEN 0 - x ELSE x

\* parseInt(s) for a string of code units: the decimal digits at the front
\* of the string; NaN when there are none
RECURSIVE DigitsValue(_, _, _)
DigitsValue(s, i, acc) ==
    IF i > Len(s) \/ s[i] < 48 \/ s[i] > 57 THEN acc
    ELSE DigitsValue(s, i + 1, acc * 10 + (s[i] - 48))

parseInt(s) ==
    LET signed == Len(s) > 0 /\ s[1] \in {43, 45}
        digits == IF signed THEN Tail(s) ELSE s
    IN  IF Len(digits) = 0 \/ digits[1] < 48 \/ digits[1] > 57
        THEN [nan |-> TRUE, num |-> 0]
        ELSE [nan |-> FALSE,
              num |-> IF signed /\ s[1] = 45 THEN 0 - DigitsValue(digits, 1, 0)
                      ELSE DigitsValue(digits, 1, 0)]

\* const raceId = params?.raceId ? parseInt(params.raceId) : null, and
\* whether `if (raceId)` lets the effect load: not for null, NaN or 0
raceId == IF raceIdParam = Missing \/ raceIdParam = <<>>
          THEN [isNull |-> TRUE, nan |-> FALSE, num |-> 0]
          ELSE [isNull |-> FALSE, nan |-> parseInt(raceIdParam).nan,
                num |-> parseInt(raceIdParam).num]

RaceIdTruthy == ~raceId.isNull /\ ~raceId.nan /\ raceId.num # 0

\* a JSON number that need not be an integer, as the fraction num / den
Ratio(n, d) == [num |-> n, den |-> d]

\* Math.round(x * 100) for a non-negative fraction x
RoundPercent(x) == (200 * x.num + x.den) \div (2 * x.den)

\* accuracy === null
NoAccuracy ==
    [isNull |-> TRUE, total_drivers |-> 0, mae |-> Ratio(0, 1), mse |-> Ratio(0, 1),
     exact_matches |-> 0, exact_match_rate |-> Ratio(0, 1),
     within_one |-> 0, within_one_rate |-> Ratio(0, 1),
     within_three |-> 0, within_three_rate |-> Ratio(0, 1)]

\* data === null
NoData == [isNull |-> TRUE, race_id |-> 0, predictions |-> <<>>,
           actual_results |-> [isNull |-> TRUE, items |-> <<>>],
           accuracy |-> NoAccuracy]

\* find that ignores the driver identifier: the first result, whoever it is for
find_AnyDriver(items, driverRef, i) ==
    IF i > Len(items) THEN <<>> ELSE <<items[i]>>

RECURSIVE find(_, _, _)
\* actual_results.find(a => a && a.driverRef === driverRef): the first such
\* result, wrapped in a one-element tuple, or the empty tuple for undefined
find(items, driverRef, i) ==
    IF i > Len(items) THEN <<>>
    ELSE IF items[i].driverRef = driverRef THEN <<items[i]>>
    ELSE find(items, driverRef, i + 1)

\* .filter(item => item !== null) over a list whose entries are <<>> for
\* null and <<record>> otherwise
FilterNonNull(mapped) ==
    LET kept == SelectSeq(mapped, LAMBDA x : x # <<>>)
    IN  [i \in 1..Len(kept) |-> kept[i][1]]

RECURSIVE Insert(_, _)
\* insert row x after every row that does not compare greater than it
Insert(sorted, x) ==
    IF sorted = <<>> THEN <<x>>
    ELSE IF Head(sorted).actual - x.actual > 0 THEN <<x>> \o sorted
    ELSE <<Head(sorted)>> \o Insert(Tail(sorted), x)

\* the table left in the order of the predictions list
SortRows_Unsorted(rows, i, acc) == rows

RECURSIVE SortRows(_, _, _)
\* rows.sort((a, b) => a.actual - b.actual): a stable sort
SortRows(rows, i, acc) ==
    IF i > Len(rows) THEN acc ELSE SortRows(rows, i + 1, Insert(acc, rows[i]))

\* the scatter plot data with the error left signed
scatterData_SignedError(d) ==
    IF d.actual_results.isNull THEN <<>>
    ELSE FilterNonNull(
           [i \in 1..Len(d.predictions) |->
              LET pred == d.predictions[i]
                  actual == find(d.actual_results.items, pred.driverRef, 1)
              IN  IF actual = <<>> THEN <<>>
                  ELSE << [driver |-> pred.driverRef,
                           predicted |-> pred.predicted_position,
                           actual |-> actual[1].finish_position,
                           error |-> pred.predicted_position - actual[1].finish_position] >>])

\* the scatter plot data of one render
scatterData(d) ==
    IF d.actual_results.isNull THEN <<>>
    ELSE FilterNonNull(
           [i \in 1..Len(d.predictions) |->
              LET pred == d.predictions[i]
                  actual == find(d.actual_results.items, pred.driverRef, 1)
              IN  IF actual = <<>> THEN <<>>
                  ELSE << [driver |-> pred.driverRef,
                           predicted |-> pred.predicted_position,
                           actual |-> actual[1].finish_position,
                           error |-> Abs(pred.predicted_position - actual[1].finish_position)] >>])

\* the comparison table with the error taken as actual minus predicted
comparisonTable_SignFlipped(d) ==
    IF d.actual_results.isNull THEN <<>>
    ELSE SortRows(
           FilterNonNull(
             [i \in 1..Len(d.predictions) |->
                LET pred == d.predictions[i]
                    actual == find(d.actual_results.items, pred.driverRef, 1)
                IN  IF actual = <<>> THEN <<>>
                    ELSE LET err == actual[1].finish_position - pred.predicted_position
                         IN  << [driver |-> pred.driverRef,
                                 team |-> pred.team,
                                 predicted |-> pred.predicted_position,
                                 actual |-> actual[1].finish_position,
                                 error |-> err,
                                 absError |-> Abs(err)] >>]),
           1, <<>>)

\* the comparison table of one render
comparisonTable(d) ==
    IF d.actual_results.isNull THEN <<>>
    ELSE SortRows(
           FilterNonNull(
             [i \in 1..Len(d.predictions) |->
                LET pred == d.predictions[i]
                    actual == find(d.actual_results.items, pred.driverRef, 1)
                IN  IF actual = <<>> THEN <<>>
                    ELSE LET err == pred.predicted_position - actual[1].finish_position
                         IN  << [driver |-> pred.driverRef,
                                 team |-> pred.team,
                                 predicted |-> pred.predicted_position,
                                 actual |-> actual[1].finish_position,
                                 error |-> err,
                                 absError |-> Abs(err)] >>]),
           1, <<>>)

\* the accuracy panel not rendered
NoMetrics ==
    [shown |-> FALSE, mae |-> 0, total |-> 0, exact |-> 0, exactPercent |-> 0,
     one |-> 0, onePercent |-> 0, three |-> 0, threePercent |-> 0]

\* the accuracy panel rendered whenever there is an accuracy object, also
\* for zero compared drivers
accuracyMetrics_NoTotalGuard(d) ==
    IF d.accuracy.isNull THEN NoMetrics
    ELSE [shown |-> TRUE,
          mae |-> RoundPercent(d.accuracy.mae),
          total |-> d.accuracy.total_drivers,
          exact |-> d.accuracy.exact_matches,
          exactPercent |-> IF d.accuracy.exact_match_rate.num # 0
                           THEN RoundPercent(d.accuracy.exact_match_rate) ELSE 0,
          one |-> d.accuracy.within_one,
          onePercent |-> IF d.accuracy.within_one_rate.num # 0
                         THEN RoundPercent(d.accuracy.within_one_rate) ELSE 0,
          three |-> d.accuracy.within_three,
          threePercent |-> IF d.accuracy.within_three_rate.num # 0
                           THEN RoundPercent(d.accuracy.within_three_rate) ELSE 0]

\* the accuracy panel with the exact-match card fed from the within-one fields
accuracyMetrics_WrongCard(d) ==
    IF d.accuracy.isNull \/ ~(d.accuracy.total_drivers > 0) THEN NoMetrics
    ELSE [shown |-> TRUE,
          mae |-> RoundPercent(d.accuracy.mae),
          total |-> d.accuracy.total_drivers,
          exact |-> d.accuracy.within_one,
          exactPercent |-> IF d.accuracy.within_one_rate.num # 0
                           THEN RoundPercent(d.accuracy.within_one_rate) ELSE 0,
          one |-> d.accuracy.within_one,
          onePercent |-> IF d.accuracy.within_one_rate.num # 0
                         THEN RoundPercent(d.accuracy.within_one_rate) ELSE 0,
          three |-> d.accuracy.within_three,
          threePercent |-> IF d.accuracy.within_three_rate.num # 0
                           THEN RoundPercent(d.accuracy.within_three_rate) ELSE 0]

\* the accuracy panel: rendered when data.accuracy is there and
\* total_drivers > 0; mae in hundredths (toFixed(2)), the three counts over
\* the total, and each rate as a rounded percentage, 0 for a falsy rate
accuracyMetrics(d) ==
    IF d.accuracy.isNull \/ ~(d.accuracy.total_drivers > 0) THEN NoMetrics
    ELSE [shown |-> TRUE,
          mae |-> RoundPercent(d.accuracy.mae),
          total |-> d.accuracy.total_drivers,
          exact |-> d.accuracy.exact_matches,
          exactPercent |-> IF d.accuracy.exact_match_rate.num # 0
                           THEN RoundPercent(d.accuracy.exact_match_rate) ELSE 0,
          one |-> d.accuracy.within_one,
          onePercent |-> IF d.accuracy.within_one_rate.num # 0
                         THEN RoundPercent(d.accuracy.within_one_rate) ELSE 0,
          three |-> d.accuracy.within_three,
          threePercent |-> IF d.accuracy.within_three_rate.num # 0
                           THEN RoundPercent(d.accuracy.within_three_rate) ELSE 0]

\* a render that shows the predictions-only view when actual results exist
Render_PredictionsOnlyInverted(d, ld, err) ==
    IF ld
    THEN [screen |-> "loading", message |-> "", scatterData |-> <<>>, comparisonTable |-> <<>>,
          predictionsOnly |-> FALSE, noPredictions |-> FALSE, accuracy |-> NoMetrics]
    ELSE IF (err # NoError /\ err # "") \/ d.isNull
    THEN [screen |-> "error",
          message |-> IF err # NoError /\ err # "" THEN err ELSE "No comparison data available",
          scatterData |-> <<>>, comparisonTable |-> <<>>,
          predictionsOnly |-> FALSE, noPredictions |-> FALSE, accuracy |-> NoMetrics]
    ELSE [screen |-> "comparison", message |-> "",
          scatterData |-> scatterData(d),
          comparisonTable |-> comparisonTable(d),
          predictionsOnly |-> Len(d.predictions) > 0 /\ ~d.actual_results.isNull,
          noPredictions |-> Len(d.predictions) = 0,
          accuracy |-> accuracyMetrics(d)]

\* one render of ComparePage from the three states
Render(d, ld, err) ==
    IF ld
    THEN [screen |-> "loading", message |-> "", scatterData |-> <<>>, comparisonTable |-> <<>>,
          predictionsOnly |-> FALSE, noPredictions |-> FALSE, accuracy |-> NoMetrics]
    ELSE IF (err # NoError /\ err # "") \/ d.isNull
    THEN [screen |-> "error",
          message |-> IF err # NoError /\ err # "" THEN err ELSE "No comparison data available",
          scatterData |-> <<>>, comparisonTable |-> <<>>,
          predictionsOnly |-> FALSE, noPredictions |-> FALSE, accuracy |-> NoMetrics]
    ELSE [screen |-> "comparison", message |-> "",
          scatterData |-> scatterData(d),
          comparisonTable |-> comparisonTable(d),
          predictionsOnly |-> Len(d.predictions) > 0 /\ d.actual_results.isNull,
          noPredictions |-> Len(d.predictions) = 0,
          accuracy |-> accuracyMetrics(d)]

CompareIdle ==
    /\ raceIdParam = Missing
    /\ effectRan = TRUE
    /\ requests = EmptyBag
    /\ data = NoData
    /\ loading = TRUE
    /\ error = NoError
    /\ view = Render(NoData, TRUE, NoError)

----------------------------------------------------------------------------
(* RaceMap: the races handed to the map and the markers computed for them *)

\* sample circuit names
CircuitInputs == <<
    <<>>,  \* 1: ''
    <<83, 112, 97>>,  \* 2: 'Spa'
    <<83, 80, 65>>,  \* 3: 'SPA'
    <<83, 112, 97, 105>>,  \* 4: 'Spai'
    <<89, 97, 115, 32, 77, 97, 114, 105, 110, 97, 32, 66, 97, 121>>,  \* 5: 'Yas Marina Bay'
    <<77, 97, 114, 105, 110, 97>>,  \* 6: 'Marina'
    <<77, 111, 110, 122, 97, 32, 67, 105, 114, 99, 117, 105, 116>>,  \* 7: 'Monza Circuit'
    <<99, 111, 110, 115, 116, 114, 117, 99, 116, 111, 114>>,  \* 8: 'constructor'
    <<85, 110, 107, 110, 111, 119, 110, 32, 82, 105, 110, 103>>,  \* 9: 'Unknown Ring'
    <<73, 116, 97, 108, 121>>,  \* 10: 'Italy'
    <<97>>,  \* 11: 'a'
    <<89, 97, 115, 32, 77, 97, 114, 105, 110, 97, 32, 67, 105, 114, 99, 117, 105, 116>>  \* 12: 'Yas Marina Circuit'
>>

\* sample location names
LocationInputs == <<
    <<>>,  \* 1: ''
    <<83, 97, 107, 104, 105, 114>>,  \* 2: 'Sakhir'
    <<77, 69, 76, 66, 79, 85, 82, 78, 69>>,  \* 3: 'MELBOURNE'
    <<85, 110, 107, 110, 111, 119, 110>>,  \* 4: 'Unknown'
    <<65, 117, 115, 116, 105, 110, 44, 32, 84, 101, 120, 97, 115>>,  \* 5: 'Austin, Texas'
    <<116, 111, 83, 116, 114, 105, 110, 103>>,  \* 6: 'toString'
    <<77, 111, 110, 116, 101, 32, 67, 97, 114, 108, 111>>  \* 7: 'Monte Carlo'
>>

\* sample country names
CountryInputs == <<
    <<>>,  \* 1: ''
    <<83, 112, 97, 105, 110>>,  \* 2: 'Spain'
    <<115, 112, 97, 105, 110>>,  \* 3: 'spain'
    <<73, 116, 97, 108, 121>>,  \* 4: 'Italy'
    <<85, 83, 65>>,  \* 5: 'USA'
    <<85, 110, 105, 116, 101, 100, 32, 83, 116, 97, 116, 101, 115, 32, 111, 102, 32, 65, 109, 101, 114, 105, 99, 97>>,  \* 6: 'United States of America'
    <<85, 110, 105, 116, 101, 100>>,  \* 7: 'United'
    <<85, 75>>,  \* 8: 'UK'
    <<99, 111, 110, 115, 116, 114, 117, 99, 116, 111, 114>>,  \* 9: 'constructor'
    <<67, 111, 110, 115, 116, 114, 117, 99, 116, 111, 114>>,  \* 10: 'Constructor'
    <<95, 95, 112, 114, 111, 116, 111, 95, 95>>,  \* 11: '__proto__'
    <<118, 97, 108, 117, 101, 79, 102>>,  \* 12: 'valueOf'
    <<77, 111, 110, 97, 99, 111>>,  \* 13: 'Monaco'
    <<97, 114, 97, 98>>  \* 14: 'arab'
>>

RaceInputs ==
    { [circuit |-> CircuitInputs[a], location |-> LocationInputs[b], country |-> CountryInputs[c]] :
        a \in 1..NumCircuitInputs, b \in 1..NumLocationInputs, c \in 1..NumCountryInputs }

InitCoords ==
    /\ race \in RaceInputs
    /\ result = Null
    /\ locals = [circuitMatch |-> Unset, locationMatch |-> Unset, countryMatch |-> Unset]
    /\ pc = "start"
    /\ CompareIdle
    /\ UtilsIdle
    /\ PagesIdle

\* the map renders a marker for the race: getRaceCoordinates(race)
Resolve ==
    /\ pc = "start"
    /\ \E run \in {getRaceCoordinates(race)} :
         /\ result' = run.ret
         /\ locals' = [circuitMatch |-> run.circuitMatch, locationMatch |-> run.locationMatch,
                       countryMatch |-> run.countryMatch]
    /\ pc' = "done"
    /\ UNCHANGED race
    /\ UNCHANGED compareVars
    /\ UNCHANGED utilVars
    /\ UNCHANGED pageVars

\* the API delivers the same race with one name in another letter case and
\* the map renders it again
ChangeCase ==
    /\ pc = "done"
    /\ \E f \in {"circuit", "location", "country"} :
       \E s \in {toLowerCase(race[f]), toUpperCase(race[f])} :
          /\ s # race[f]
          /\ race' = [race EXCEPT ![f] = s]
    /\ \E run \in {getRaceCoordinates(race')} :
         /\ result' = run.ret
         /\ locals' = [circuitMatch |-> run.circuitMatch, locationMatch |-> run.locationMatch,
                       countryMatch |-> run.countryMatch]
    /\ pc' = "recased"
    /\ UNCHANGED compareVars
    /\ UNCHANGED utilVars
    /\ UNCHANGED pageVars

NextCoords == Resolve \/ ChangeCase

SpecCoords == InitCoords /\ [][NextCoords]_vars

----------------------------------------------------------------------------
(* Compare page: loading the comparison *)

\* params.raceId: no parameter, '7', '0', 'abc'
RaceIdParams == {Missing, <<55>>, <<48>>, <<97, 98, 99>>}

SeqsUpTo(S, n) == UNION {[1..k -> S] : k \in 0..n}

DriverPrediction ==
    [driverRef : Drivers, team : Teams, predicted_position : 1..MaxPosition]

ActualResult == [driverRef : Drivers, finish_position : 1..MaxPosition]

RECURSIVE SumOver(_, _, _)
SumOver(list, i, acc) == IF i > Len(list) THEN acc ELSE SumOver(list, i + 1, acc + list[i])

\* the service's accuracy summary for one race: null without actual results,
\* else computed over the predictions that have an actual result with the
\* same driver identifier (the first such result)
buildAccuracy(predictions, actual_results) ==
    IF actual_results.isNull THEN NoAccuracy
    ELSE LET paired == [i \in 1..Len(predictions) |->
                          find(actual_results.items, predictions[i].driverRef, 1)]
             errs == FilterNonNull(
                        [i \in 1..Len(predictions) |->
                           IF paired[i] = <<>> THEN <<>>
                           ELSE << Abs(predictions[i].predicted_position
                                       - paired[i][1].finish_position) >>])
             total == Len(errs)
             exact == Len(SelectSeq(errs, LAMBDA e : e = 0))
             one == Len(SelectSeq(errs, LAMBDA e : e <= 1))
             three == Len(SelectSeq(errs, LAMBDA e : e <= 3))
             Rate(n) == IF total = 0 THEN Ratio(0, 1) ELSE Ratio(n, total)
         IN  [isNull |-> FALSE,
              total_drivers |-> total,
              mae |-> Rate(SumOver(errs, 1, 0)),
              mse |-> Rate(SumOver([i \in 1..Len(errs) |-> errs[i] * errs[i]], 1, 0)),
              exact_matches |-> exact, exact_match_rate |-> Rate(exact),
              within_one |-> one, within_one_rate |-> Rate(one),
              within_three |-> three, within_three_rate |-> Rate(three)]

\* actual_results of a response: null, or a list of results
ActualResultsValues ==
    {[isNull |-> TRUE, items |-> <<>>]}
    \cup [isNull : {FALSE}, items : SeqsUpTo(ActualResult, MaxActualResults)]

\* the body of a 2xx response of GET /compare/<race_id> that carries predictions
ComparisonData(race_id, predictions, actual_results) ==
    [isNull |-> FALSE, race_id |-> race_id, predictions |-> predictions,
     actual_results |-> actual_results,
     accuracy |-> buildAccuracy(predictions, actual_results)]

CoordsIdle ==
    /\ race = [circuit |-> <<>>, location |-> <<>>, country |-> <<>>]
    /\ result = Null
    /\ locals = [circuitMatch |-> Unset, locationMatch |-> Unset, countryMatch |-> Unset]
    /\ pc = "off"

InitCompare ==
    /\ raceIdParam \in RaceIdParams
    /\ effectRan = FALSE
    /\ requests = EmptyBag
    /\ data = NoData
    /\ loading = TRUE
    /\ error = NoError
    /\ view = Render(NoData, TRUE, NoError)
    /\ CoordsIdle
    /\ UtilsIdle
    /\ PagesIdle

\* useEffect(() => { if (raceId) loadComparison(raceId) }, [raceId]): the
\* fetch of loadComparison is issued
MountEffect ==
    /\ ~effectRan
    /\ effectRan' = TRUE
    /\ requests' = IF RaceIdTruthy THEN requests (+) SetToBag({raceId.num}) ELSE requests
    /\ UNCHANGED <<raceIdParam, data, loading, error, view>>
    /\ UNCHANGED coordVars
    /\ UNCHANGED utilVars
    /\ UNCHANGED pageVars

\* the states after one settled loadComparison, and the render that follows
Settle(id, newData, newError) ==
    /\ requests' = requests (-) SetToBag({id})
    /\ data' = newData
    /\ error' = newError
    /\ loading' = FALSE
    /\ view' = Render(newData, FALSE, newError)
    /\ UNCHANGED <<raceIdParam, effectRan>>
    /\ UNCHANGED coordVars
    /\ UNCHANGED utilVars
    /\ UNCHANGED pageVars

\* response.ok and the body has predictions: setData(result)
ResponseOk ==
    \E id \in BagToSet(requests) :
    \E p \in SeqsUpTo(DriverPrediction, MaxPredictions) : \E a \in ActualResultsValues :
        Settle(id, ComparisonData(id, p, a), error)

\* response.ok but the body is null or has no predictions
ResponseInvalid ==
    \E id \in BagToSet(requests) : Settle(id, data, "Invalid comparison data received")

\* a non-2xx response: the body's detail, the status text when the body has
\* none, the fixed message when the body is not JSON
ResponseNotOk ==
    \E id \in BagToSet(requests) :
    \E msg \in {"detail", "Error: statusText", "Failed to load comparison data"} :
        Settle(id, data, msg)

\* fetch rejects, or the body of a 2xx response is not JSON: the catch block
FetchRejected ==
    \E id \in BagToSet(requests) : \E msg \in {"err.message", ""} : Settle(id, data, msg)

NextCompare ==
    MountEffect \/ ResponseOk \/ ResponseInvalid \/ ResponseNotOk \/ FetchRejected

SpecCompare == InitCompare /\ [][NextCompare]_vars

----------------------------------------------------------------------------
(* Compare page: the route changes while the page is mounted *)

\* params.raceId of the routes navigated to: those above and '8'
RouteParams == RaceIdParams \cup {<<56>>}

\* one body of a 2xx response of GET /compare/<race_id>: a single prediction
\* and no actual results yet
SampleComparison(race_id) ==
    [isNull |-> FALSE, race_id |-> race_id,
     predictions |-> <<[driverRef |-> "A", team |-> "T", predicted_position |-> 1]>>,
     actual_results |-> [isNull |-> TRUE, items |-> <<>>],
     accuracy |-> NoAccuracy]

\* a route change that aborted the fetches in flight
RouteChange_AbortsInFlight ==
    /\ effectRan
    /\ BagCardinality(requests) < MaxOutstanding
    /\ \E p \in RouteParams :
         /\ p # raceIdParam
         /\ raceIdParam' = p
    /\ requests' = IF RaceIdTruthy' /\ raceId' # raceId
                   THEN SetToBag({raceId'.num}) ELSE EmptyBag
    /\ UNCHANGED <<effectRan, data, loading, error, view>>
    /\ UNCHANGED coordVars
    /\ UNCHANGED utilVars
    /\ UNCHANGED pageVars

\* the route's raceId changes: the page renders with the new params and the
\* effect runs again when the parsed raceId is another value; the fetches
\* already issued stay in flight, and data, loading and error are not reset
RouteChange ==
    /\ effectRan
    /\ BagCardinality(requests) < MaxOutstanding
    /\ \E p \in RouteParams :
         /\ p # raceIdParam
         /\ raceIdParam' = p
    /\ requests' = IF RaceIdTruthy' /\ raceId' # raceId
                   THEN requests (+) SetToBag({raceId'.num}) ELSE requests
    /\ UNCHANGED <<effectRan, data, loading, error, view>>
    /\ UNCHANGED coordVars
    /\ UNCHANGED utilVars
    /\ UNCHANGED pageVars

\* response.ok for the fetch of race id, with that race's comparison
SampleResponseOk ==
    \E id \in BagToSet(requests) : Settle(id, SampleComparison(id), error)

NextNavigate ==
    \/ MountEffect \/ RouteChange
    \/ SampleResponseOk \/ ResponseInvalid \/ ResponseNotOk \/ FetchRejected

SpecNavigate == InitCompare /\ [][NextNavigate]_vars

----------------------------------------------------------------------------
(* Portrait, logo and display-name utilities *)

Str(s) == [type |-> "string", val |-> s]

\* v || null: the empty string, null and undefined give null, every other
\* value is returned as it is
OrNull(v) ==
    IF v.type = "string" THEN (IF v.val # <<>> THEN v ELSE Null)
    ELSE IF Truthy(v) THEN v ELSE Null

\* mapping[k] on a table of file names: the own property if there is one,
\* else the property found on the prototype chain, else undefined
GetFile(mapping, k) ==
    IF \E i \in 1..Len(mapping) : mapping[i].key = k
    THEN Str(mapping[CHOOSE i \in 1..Len(mapping) : mapping[i].key = k].file)
    ELSE IF \E n \in 1..Len(ObjectPrototypeFunctions) : ObjectPrototypeFunctions[n] = k
    THEN Fn
    ELSE IF k = ProtoAccessor
    THEN Obj
    ELSE Null

\* portraitMap of getDriverPortrait, in source order
portraitMap == <<
    \* 1: 'max_verstappen': 'MaxVerstappen1.png'
    [key |-> <<109, 97, 120, 95, 118, 101, 114, 115, 116, 97, 112, 112, 101, 110>>,
     file |-> <<77, 97, 120, 86, 101, 114, 115, 116, 97, 112, 112, 101, 110, 49, 46, 112, 110, 103>>],
    \* 2: 'lewis_hamilton': 'LewisHamilton44.png'
    [key |-> <<108, 101, 119, 105, 115, 95, 104, 97, 109, 105, 108, 116, 111, 110>>,
     file |-> <<76, 101, 119, 105, 115, 72, 97, 109, 105, 108, 116, 111, 110, 52, 52, 46, 112, 110, 103>>],
    \* 3: 'charles_leclerc': 'CharlesLeclerc16.png'
    [key |-> <<99, 104, 97, 114, 108, 101, 115, 95, 108, 101, 99, 108, 101, 114, 99>>,
     file |-> <<67, 104, 97, 114, 108, 101, 115, 76, 101, 99, 108, 101, 114, 99, 49, 54, 46, 112, 110, 103>>],
    \* 4: 'carlos_sainz': 'CarlosSainz55.png'
    [key |-> <<99, 97, 114, 108, 111, 115, 95, 115, 97, 105, 110, 122>>,
     file |-> <<67, 97, 114, 108, 111, 115, 83, 97, 105, 110, 122, 53, 53, 46, 112, 110, 103>>],
    \* 5: 'lando_norris': 'LandoNorris4.png'
    [key |-> <<108, 97, 110, 100, 111, 95, 110, 111, 114, 114, 105, 115>>,
     file |-> <<76, 97, 110, 100, 111, 78, 111, 114, 114, 105, 115, 52, 46, 112, 110, 103>>],
    \* 6: 'george_russell': 'GeorgeRussel63.png'
    [key |-> <<103, 101, 111, 114, 103, 101, 95, 114, 117, 115, 115, 101, 108, 108>>,
     file |-> <<71, 101, 111, 114, 103, 101, 82, 117, 115, 115, 101, 108, 54, 51, 46, 112, 110, 103>>],
    \* 7: 'george_russel': 'GeorgeRussel63.png'
    [key |-> <<103, 101, 111, 114, 103, 101, 95, 114, 117, 115, 115, 101, 108>>,
     file |-> <<71, 101, 111, 114, 103, 101, 82, 117, 115, 115, 101, 108, 54, 51, 46, 112, 110, 103>>],
    \* 8: 'alexander_albon': 'AlexanderAlbon23.png'
    [key |-> <<97, 108, 101, 120, 97, 110, 100, 101, 114, 95, 97, 108, 98, 111, 110>>,
     file |-> <<65, 108, 101, 120, 97, 110, 100, 101, 114, 65, 108, 98, 111, 110, 50, 51, 46, 112, 110, 103>>],
    \* 9: 'esteban_ocon': 'EstebanOcon31.png'
    [key |-> <<101, 115, 116, 101, 98, 97, 110, 95, 111, 99, 111, 110>>,
     file |-> <<69, 115, 116, 101, 98, 97, 110, 79, 99, 111, 110, 51, 49, 46, 112, 110, 103>>],
    \* 10: 'fernando_alonso': 'FernandoAlonso14.png'
    [key |-> <<102, 101, 114, 110, 97, 110, 100, 111, 95, 97, 108, 111, 110, 115, 111>>,
     file |-> <<70, 101, 114, 110, 97, 110, 100, 111, 65, 108, 111, 110, 115, 111, 49, 52, 46, 112, 110, 103>>],
    \* 11: 'franco_colapinto': 'FrancoColapinto43.png'
    [key |-> <<102, 114, 97, 110, 99, 111, 95, 99, 111, 108, 97, 112, 105, 110, 116, 111>>,
     file |-> <<70, 114, 97, 110, 99, 111, 67, 111, 108, 97, 112, 105, 110, 116, 111, 52, 51, 46, 112, 110, 103>>],
    \* 12: 'gabriel_bortoleto': 'GabrielBortoleto5.png'
    [key |-> <<103, 97, 98, 114, 105, 101, 108, 95, 98, 111, 114, 116, 111, 108, 101, 116, 111>>,
     file |-> <<71, 97, 98, 114, 105, 101, 108, 66, 111, 114, 116, 111, 108, 101, 116, 111, 53, 46, 112, 110, 103>>],
    \* 13: 'isack_hadjar': 'IsackHadjar6.png'
    [key |-> <<105, 115, 97, 99, 107, 95, 104, 97, 100, 106, 97, 114>>,
     file |-> <<73, 115, 97, 99, 107, 72, 97, 100, 106, 97, 114, 54, 46, 112, 110, 103>>],
    \* 14: 'jack_doohan': 'JackDoohan7.png'
    [key |-> <<106, 97, 99, 107, 95, 100, 111, 111, 104, 97, 110>>,
     file |-> <<74, 97, 99, 107, 68, 111, 111, 104, 97, 110, 55, 46, 112, 110, 103>>],
    \* 15: 'kimi_antonelli': 'KimiAntonelli12.png'
    [key |-> <<107, 105, 109, 105, 95, 97, 110, 116, 111, 110, 101, 108, 108, 105>>,
     file |-> <<75, 105, 109, 105, 65, 110, 116, 111, 110, 101, 108, 108, 105, 49, 50, 46, 112, 110, 103>>],
    \* 16: 'lance_stroll': 'LanceStroll18.png'
    [key |-> <<108, 97, 110, 99, 101, 95, 115, 116, 114, 111, 108, 108>>,
     file |-> <<76, 97, 110, 99, 101, 83, 116, 114, 111, 108, 108, 49, 56, 46, 112, 110, 103>>],
    \* 17: 'liam_lawson': 'LiamLawson30.png'
    [key |-> <<108, 105, 97, 109, 95, 108, 97, 119, 115, 111, 110>>,
     file |-> <<76, 105, 97, 109, 76, 97, 119, 115, 111, 110, 51, 48, 46, 112, 110, 103>>],
    \* 18: 'nico_hulkenberg': 'NicoHulkenberg27.png'
    [key |-> <<110, 105, 99, 111, 95, 104, 117, 108, 107, 101, 110, 98, 101, 114, 103>>,
     file |-> <<78, 105, 99, 111, 72, 117, 108, 107, 101, 110, 98, 101, 114, 103, 50, 55, 46, 112, 110, 103>>],
    \* 19: 'oliver_bearman': 'OliverBearman87.png'
    [key |-> <<111, 108, 105, 118, 101, 114, 95, 98, 101, 97, 114, 109, 97, 110>>,
     file |-> <<79, 108, 105, 118, 101, 114, 66, 101, 97, 114, 109, 97, 110, 56, 55, 46, 112, 110, 103>>],
    \* 20: 'oscar_piastri': 'OscarPiastri81.png'
    [key |-> <<111, 115, 99, 97, 114, 95, 112, 105, 97, 115, 116, 114, 105>>,
     file |-> <<79, 115, 99, 97, 114, 80, 105, 97, 115, 116, 114, 105, 56, 49, 46, 112, 110, 103>>],
    \* 21: 'pierre_gasly': 'PierreGasly10.png'
    [key |-> <<112, 105, 101, 114, 114, 101, 95, 103, 97, 115, 108, 121>>,
     file |-> <<80, 105, 101, 114, 114, 101, 71, 97, 115, 108, 121, 49, 48, 46, 112, 110, 103>>],
    \* 22: 'yuki_tsunoda': 'YukiTsunoda22.png'
    [key |-> <<121, 117, 107, 105, 95, 116, 115, 117, 110, 111, 100, 97>>,
     file |-> <<89, 117, 107, 105, 84, 115, 117, 110, 111, 100, 97, 50, 50, 46, 112, 110, 103>>]
>>

\* teamMap of getTeamLogo, in source order
teamMap == <<
    \* 1: 'red bull racing': '2025redbullracinglogowhite.webp.avif'
    [key |-> <<114, 101, 100, 32, 98, 117, 108, 108, 32, 114, 97, 99, 105, 110, 103>>,
     file |-> <<50, 48, 50, 53, 114, 101, 100, 98, 117, 108, 108, 114, 97, 99, 105, 110, 103, 108, 111, 103, 111, 119, 104, 105, 116, 101, 46, 119, 101, 98, 112, 46, 97, 118, 105, 102>>],
    \* 2: 'red bull': '2025redbullracinglogowhite.webp.avif'
    [key |-> <<114, 101, 100, 32, 98, 117, 108, 108>>,
     file |-> <<50, 48, 50, 53, 114, 101, 100, 98, 117, 108, 108, 114, 97, 99, 105, 110, 103, 108, 111, 103, 111, 119, 104, 105, 116, 101, 46, 119, 101, 98, 112, 46, 97, 118, 105, 102>>],
    \* 3: 'redbull': '2025redbullracinglogowhite.webp.avif'
    [key |-> <<114, 101, 100, 98, 117, 108, 108>>,
     file |-> <<50, 48, 50, 53, 114, 101, 100, 98, 117, 108, 108, 114, 97, 99, 105, 110, 103, 108, 111, 103, 111, 119, 104, 105, 116, 101, 46, 119, 101, 98, 112, 46, 97, 118, 105, 102>>],
    \* 4: 'racing bulls': '2025racingbullslogowhite.webp.avif'
    [key |-> <<114, 97, 99, 105, 110, 103, 32, 98, 117, 108, 108, 115>>,
     file |-> <<50, 48, 50, 53, 114, 97, 99, 105, 110, 103, 98, 117, 108, 108, 115, 108, 111, 103, 111, 119, 104, 105, 116, 101, 46, 119, 101, 98, 112, 46, 97, 118, 105, 102>>],
    \* 5: 'rb': '2025racingbullslogowhite.webp.avif'
    [key |-> <<114, 98>>,
     file |-> <<50, 48, 50, 53, 114, 97, 99, 105, 110, 103, 98, 117, 108, 108, 115, 108, 111, 103, 111, 119, 104, 105, 116, 101, 46, 119, 101, 98, 112, 46, 97, 118, 105, 102>>],
    \* 6: 'alphatauri': '2025racingbullslogowhite.webp.avif'
    [key |-> <<97, 108, 112, 104, 97, 116, 97, 117, 114, 105>>,
     file |-> <<50, 48, 50, 53, 114, 97, 99, 105, 110, 103, 98, 117, 108, 108, 115, 108, 111, 103, 111, 119, 104, 105, 116, 101, 46, 119, 101, 98, 112, 46, 97, 118, 105, 102>>],
    \* 7: 'vcarb': '2025racingbullslogowhite.webp.avif'
    [key |-> <<118, 99, 97, 114, 98>>,
     file |-> <<50, 48, 50, 53, 114, 97, 99, 105, 110, 103, 98, 117, 108, 108, 115, 108, 111, 103, 111, 119, 104, 105, 116, 101, 46, 119, 101, 98, 112, 46, 97, 118, 105, 102>>],
    \* 8: 'ferrari': '2025ferrarilogowhite.webp.avif'
    [key |-> <<102, 101, 114, 114, 97, 114, 105>>,
     file |-> <<50, 48, 50, 53, 102, 101, 114, 114, 97, 114, 105, 108, 111, 103, 111, 119, 104, 105, 116, 101, 46, 119, 101, 98, 112, 46, 97, 118, 105, 102>>],
    \* 9: 'mercedes': '2025mercedeslogowhite.webp.avif'
    [key |-> <<109, 101, 114, 99, 101, 100, 101, 115>>,
     file |-> <<50, 48, 50, 53, 109, 101, 114, 99, 101, 100, 101, 115, 108, 111, 103, 111, 119, 104, 105, 116, 101, 46, 119, 101, 98, 112, 46, 97, 118, 105, 102>>],
    \* 10: 'mclaren': '2025mclarenlogowhite.webp.avif'
    [key |-> <<109, 99, 108, 97, 114, 101, 110>>,
     file |-> <<50, 48, 50, 53, 109, 99, 108, 97, 114, 101, 110, 108, 111, 103, 111, 119, 104, 105, 116, 101, 46, 119, 101, 98, 112, 46, 97, 118, 105, 102>>],
    \* 11: 'aston martin': '2025astonmartinlogowhite.webp.avif'
    [key |-> <<97, 115, 116, 111, 110, 32, 109, 97, 114, 116, 105, 110>>,
     file |-> <<50, 48, 50, 53, 97, 115, 116, 111, 110, 109, 97, 114, 116, 105, 110, 108, 111, 103, 111, 119, 104, 105, 116, 101, 46, 119, 101, 98, 112, 46, 97, 118, 105, 102>>],
    \* 12: 'aston martin f1': '2025astonmartinlogowhite.webp.avif'
    [key |-> <<97, 115, 116, 111, 110, 32, 109, 97, 114, 116, 105, 110, 32, 102, 49>>,
     file |-> <<50, 48, 50, 53, 97, 115, 116, 111, 110, 109, 97, 114, 116, 105, 110, 108, 111, 103, 111, 119, 104, 105, 116, 101, 46, 119, 101, 98, 112, 46, 97, 118, 105, 102>>],
    \* 13: 'alpine': '2025alpinelogowhite.webp.avif'
    [key |-> <<97, 108, 112, 105, 110, 101>>,
     file |-> <<50, 48, 50, 53, 97, 108, 112, 105, 110, 101, 108, 111, 103, 111, 119, 104, 105, 116, 101, 46, 119, 101, 98, 112, 46, 97, 118, 105, 102>>],
    \* 14: 'williams': '2025williamslogowhite.webp.avif'
    [key |-> <<119, 105, 108, 108, 105, 97, 109, 115>>,
     file |-> <<50, 48, 50, 53, 119, 105, 108, 108, 105, 97, 109, 115, 108, 111, 103, 111, 119, 104, 105, 116, 101, 46, 119, 101, 98, 112, 46, 97, 118, 105, 102>>],
    \* 15: 'haas': '2025haasf1teamlogowhite.webp.avif'
    [key |-> <<104, 97, 97, 115>>,
     file |-> <<50, 48, 50, 53, 104, 97, 97, 115, 102, 49, 116, 101, 97, 109, 108, 111, 103, 111, 119, 104, 105, 116, 101, 46, 119, 101, 98, 112, 46, 97, 118, 105, 102>>],
    \* 16: 'haas f1 team': '2025haasf1teamlogowhite.webp.avif'
    [key |-> <<104, 97, 97, 115, 32, 102, 49, 32, 116, 101, 97, 109>>,
     file |-> <<50, 48, 50, 53, 104, 97, 97, 115, 102, 49, 116, 101, 97, 109, 108, 111, 103, 111, 119, 104, 105, 116, 101, 46, 119, 101, 98, 112, 46, 97, 118, 105, 102>>],
    \* 17: 'sauber': '2025kicksauberlogowhite.webp.avif'
    [key |-> <<115, 97, 117, 98, 101, 114>>,
     file |-> <<50, 48, 50, 53, 107, 105, 99, 107, 115, 97, 117, 98, 101, 114, 108, 111, 103, 111, 119, 104, 105, 116, 101, 46, 119, 101, 98, 112, 46, 97, 118, 105, 102>>],
    \* 18: 'kick sauber': '2025kicksauberlogowhite.webp.avif'
    [key |-> <<107, 105, 99, 107, 32, 115, 97, 117, 98, 101, 114>>,
     file |-> <<50, 48, 50, 53, 107, 105, 99, 107, 115, 97, 117, 98, 101, 114, 108, 111, 103, 111, 119, 104, 105, 116, 101, 46, 119, 101, 98, 112, 46, 97, 118, 105, 102>>],
    \* 19: 'stake f1 team': '2025kicksauberlogowhite.webp.avif'
    [key |-> <<115, 116, 97, 107, 101, 32, 102, 49, 32, 116, 101, 97, 109>>,
     file |-> <<50, 48, 50, 53, 107, 105, 99, 107, 115, 97, 117, 98, 101, 114, 108, 111, 103, 111, 119, 104, 105, 116, 101, 46, 119, 101, 98, 112, 46, 97, 118, 105, 102>>]
>>

getDriverPortrait(driverRef) ==
    LET normalizedRef == toLowerCase(driverRef)
    IN  OrNull(GetFile(portraitMap, normalizedRef))

\* WhiteSpace and LineTerminator code units of the Latin-1 range: TAB, LF,
\* VT, FF, CR, SP, NBSP
IsWhiteSpace(c) == c \in {9, 10, 11, 12, 13, 32, 160}

RECURSIVE trimStart(_)
trimStart(s) ==
    IF s # <<>> /\ IsWhiteSpace(Head(s)) THEN trimStart(Tail(s)) ELSE s

RECURSIVE trimEnd(_)
trimEnd(s) ==
    IF s # <<>> /\ IsWhiteSpace(s[Len(s)]) THEN trimEnd(SubSeq(s, 1, Len(s) - 1)) ELSE s

\* String.prototype.trim
trim(s) == trimEnd(trimStart(s))

getTeamLogo_NoTrim(teamName) ==
    LET normalizedName == toLowerCase(teamName)
    IN  OrNull(GetFile(teamMap, normalizedName))

getTeamLogo(teamName) ==
    LET normalizedName == trim(toLowerCase(teamName))
    IN  OrNull(GetFile(teamMap, normalizedName))

\* \w without the u flag: [A-Za-z0-9_]
IsWordChar(c) ==
    (c >= 65 /\ c <= 90) \/ (c >= 97 /\ c <= 122) \/ (c >= 48 /\ c <= 57) \/ c = 95

\* name.replace(/_/g, ' ')
replaceUnderscores(name) == [i \in 1..Len(name) |-> IF name[i] = 95 THEN 32 ELSE name[i]]

\* s.replace(/\b\w/g, l => l.toUpperCase()): \b\w matches a word character
\* that starts the string or follows a non-word character
upperCaseAtWordBoundaries(s) ==
    [i \in 1..Len(s) |->
        IF IsWordChar(s[i]) /\ (i = 1 \/ ~IsWordChar(s[i - 1])) THEN UpperUnit(s[i]) ELSE s[i]]

formatDriverName(name) == upperCaseAtWordBoundaries(replaceUnderscores(name))

\* s.replace('_', ' '): a string pattern replaces the first occurrence only
RECURSIVE replaceFirstUnderscore(_)
replaceFirstUnderscore(s) ==
    IF s = <<>> THEN <<>>
    ELSE IF Head(s) = 95 THEN <<32>> \o Tail(s)
    ELSE <<Head(s)>> \o replaceFirstUnderscore(Tail(s))

\* the driver cell of a row of the comparison table:
\* row.driver.replace('_', ' ').replace(/\b\w/g, l => l.toUpperCase())
driverCell(driver) == upperCaseAtWordBoundaries(replaceFirstUnderscore(driver))

\* sample driverRef strings: every slug of the table, then other spellings,
\* unknown names and names of Object.prototype members
DriverRefInputs == <<
    <<109, 97, 120, 95, 118, 101, 114, 115, 116, 97, 112, 112, 101, 110>>,  \* 1: 'max_verstappen'
    <<108, 101, 119, 105, 115, 95, 104, 97, 109, 105, 108, 116, 111, 110>>,  \* 2: 'lewis_hamilton'
    <<99, 104, 97, 114, 108, 101, 115, 95, 108, 101, 99, 108, 101, 114, 99>>,  \* 3: 'charles_leclerc'
    <<99, 97, 114, 108, 111, 115, 95, 115, 97, 105, 110, 122>>,  \* 4: 'carlos_sainz'
    <<108, 97, 110, 100, 111, 95, 110, 111, 114, 114, 105, 115>>,  \* 5: 'lando_norris'
    <<103, 101, 111, 114, 103, 101, 95, 114, 117, 115, 115, 101, 108, 108>>,  \* 6: 'george_russell'
    <<103, 101, 111, 114, 103, 101, 95, 114, 117, 115, 115, 101, 108>>,  \* 7: 'george_russel'
    <<97, 108, 101, 120, 97, 110, 100, 101, 114, 95, 97, 108, 98, 111, 110>>,  \* 8: 'alexander_albon'
    <<101, 115, 116, 101, 98, 97, 110, 95, 111, 99, 111, 110>>,  \* 9: 'esteban_ocon'
    <<102, 101, 114, 110, 97, 110, 100, 111, 95, 97, 108, 111, 110, 115, 111>>,  \* 10: 'fernando_alonso'
    <<102, 114, 97, 110, 99, 111, 95, 99, 111, 108, 97, 112, 105, 110, 116, 111>>,  \* 11: 'franco_colapinto'
    <<103, 97, 98, 114, 105, 101, 108, 95, 98, 111, 114, 116, 111, 108, 101, 116, 111>>,  \* 12: 'gabriel_bortoleto'
    <<105, 115, 97, 99, 107, 95, 104, 97, 100, 106, 97, 114>>,  \* 13: 'isack_hadjar'
    <<106, 97, 99, 107, 95, 100, 111, 111, 104, 97, 110>>,  \* 14: 'jack_doohan'
    <<107, 105, 109, 105, 95, 97, 110, 116, 111, 110, 101, 108, 108, 105>>,  \* 15: 'kimi_antonelli'
    <<108, 97, 110, 99, 101, 95, 115, 116, 114, 111, 108, 108>>,  \* 16: 'lance_stroll'
    <<108, 105, 97, 109, 95, 108, 97, 119, 115, 111, 110>>,  \* 17: 'liam_lawson'
    <<110, 105, 99, 111, 95, 104, 117, 108, 107, 101, 110, 98, 101, 114, 103>>,  \* 18: 'nico_hulkenberg'
    <<111, 108, 105, 118, 101, 114, 95, 98, 101, 97, 114, 109, 97, 110>>,  \* 19: 'oliver_bearman'
    <<111, 115, 99, 97, 114, 95, 112, 105, 97, 115, 116, 114, 105>>,  \* 20: 'oscar_piastri'
    <<112, 105, 101, 114, 114, 101, 95, 103, 97, 115, 108, 121>>,  \* 21: 'pierre_gasly'
    <<121, 117, 107, 105, 95, 116, 115, 117, 110, 111, 100, 97>>,  \* 22: 'yuki_tsunoda'
    <<77, 97, 120, 95, 86, 101, 114, 115, 116, 97, 112, 112, 101, 110>>,  \* 23: 'Max_Verstappen'
    <<77, 65, 88, 95, 86, 69, 82, 83, 84, 65, 80, 80, 69, 78>>,  \* 24: 'MAX_VERSTAPPEN'
    <<71, 101, 111, 114, 103, 101, 95, 82, 117, 115, 115, 101, 108>>,  \* 25: 'George_Russel'
    <<32, 109, 97, 120, 95, 118, 101, 114, 115, 116, 97, 112, 112, 101, 110>>,  \* 26: ' max_verstappen'
    <<118, 101, 114, 115, 116, 97, 112, 112, 101, 110>>,  \* 27: 'verstappen'
    <<109, 97, 120, 32, 118, 101, 114, 115, 116, 97, 112, 112, 101, 110>>,  \* 28: 'max verstappen'
    <<>>,  \* 29: ''
    <<115, 101, 114, 103, 105, 111, 95, 112, 101, 114, 101, 122>>,  \* 30: 'sergio_perez'
    <<99, 111, 110, 115, 116, 114, 117, 99, 116, 111, 114>>,  \* 31: 'constructor'
    <<67, 111, 110, 115, 116, 114, 117, 99, 116, 111, 114>>,  \* 32: 'Constructor'
    <<67, 79, 78, 83, 84, 82, 85, 67, 84, 79, 82>>,  \* 33: 'CONSTRUCTOR'
    <<95, 95, 112, 114, 111, 116, 111, 95, 95>>,  \* 34: '__proto__'
    <<116, 111, 83, 116, 114, 105, 110, 103>>,  \* 35: 'toString'
    <<118, 97, 108, 117, 101, 79, 102>>,  \* 36: 'valueOf'
    <<104, 97, 115, 111, 119, 110, 112, 114, 111, 112, 101, 114, 116, 121>>  \* 37: 'hasownproperty'
>>

\* sample team names: every alias of the table, then other spellings, unknown
\* names and names of Object.prototype members
TeamNameInputs == <<
    <<114, 101, 100, 32, 98, 117, 108, 108, 32, 114, 97, 99, 105, 110, 103>>,  \* 1: 'red bull racing'
    <<114, 101, 100, 32, 98, 117, 108, 108>>,  \* 2: 'red bull'
    <<114, 101, 100, 98, 117, 108, 108>>,  \* 3: 'redbull'
    <<114, 97, 99, 105, 110, 103, 32, 98, 117, 108, 108, 115>>,  \* 4: 'racing bulls'
    <<114, 98>>,  \* 5: 'rb'
    <<97, 108, 112, 104, 97, 116, 97, 117, 114, 105>>,  \* 6: 'alphatauri'
    <<118, 99, 97, 114, 98>>,  \* 7: 'vcarb'
    <<102, 101, 114, 114, 97, 114, 105>>,  \* 8: 'ferrari'
    <<109, 101, 114, 99, 101, 100, 101, 115>>,  \* 9: 'mercedes'
    <<109, 99, 108, 97, 114, 101, 110>>,  \* 10: 'mclaren'
    <<97, 115, 116, 111, 110, 32, 109, 97, 114, 116, 105, 110>>,  \* 11: 'aston martin'
    <<97, 115, 116, 111, 110, 32, 109, 97, 114, 116, 105, 110, 32, 102, 49>>,  \* 12: 'aston martin f1'
    <<97, 108, 112, 105, 110, 101>>,  \* 13: 'alpine'
    <<119, 105, 108, 108, 105, 97, 109, 115>>,  \* 14: 'williams'
    <<104, 97, 97, 115>>,  \* 15: 'haas'
    <<104, 97, 97, 115, 32, 102, 49, 32, 116, 101, 97, 109>>,  \* 16: 'haas f1 team'
    <<115, 97, 117, 98, 101, 114>>,  \* 17: 'sauber'
    <<107, 105, 99, 107, 32, 115, 97, 117, 98, 101, 114>>,  \* 18: 'kick sauber'
    <<115, 116, 97, 107, 101, 32, 102, 49, 32, 116, 101, 97, 109>>,  \* 19: 'stake f1 team'
    <<82, 101, 100, 32, 66, 117, 108, 108, 32, 82, 97, 99, 105, 110, 103>>,  \* 20: 'Red Bull Racing'
    <<32, 32, 82, 69, 68, 32, 66, 85, 76, 76, 32, 32>>,  \* 21: '  RED BULL  '
    <<84, 111, 116, 97, 108, 108, 121, 32, 85, 110, 107, 110, 111, 119, 110, 32, 82, 97, 99, 105, 110, 103>>,  \* 22: 'Totally Unknown Racing'
    <<>>,  \* 23: ''
    <<32, 32, 32>>,  \* 24: '   '
    <<70, 101, 114, 114, 97, 114, 105, 9>>,  \* 25: 'Ferrari\t'
    <<160, 77, 99, 76, 97, 114, 101, 110>>,  \* 26: '\xa0McLaren'
    <<114, 101, 100, 32, 32, 98, 117, 108, 108>>,  \* 27: 'red  bull'
    <<75, 105, 99, 107, 32, 83, 97, 117, 98, 101, 114>>,  \* 28: 'Kick Sauber'
    <<82, 66, 32>>,  \* 29: 'RB '
    <<99, 111, 110, 115, 116, 114, 117, 99, 116, 111, 114>>,  \* 30: 'constructor'
    <<32, 67, 111, 110, 115, 116, 114, 117, 99, 116, 111, 114, 32>>,  \* 31: ' Constructor '
    <<95, 95, 112, 114, 111, 116, 111, 95, 95>>,  \* 32: '__proto__'
    <<116, 111, 83, 116, 114, 105, 110, 103>>,  \* 33: 'toString'
    <<98, 117, 108, 108>>  \* 34: 'bull'
>>

\* sample names handed to formatDriverName
DisplayNameInputs == <<
    <<109, 97, 120, 95, 118, 101, 114, 115, 116, 97, 112, 112, 101, 110>>,  \* 1: 'max_verstappen'
    <<>>,  \* 2: ''
    <<97, 95, 98, 95, 99>>,  \* 3: 'a_b_c'
    <<107, 105, 109, 105, 95, 97, 110, 116, 111, 110, 101, 108, 108, 105, 95, 106, 114>>,  \* 4: 'kimi_antonelli_jr'
    <<95>>,  \* 5: '_'
    <<95, 95>>,  \* 6: '__'
    <<77, 65, 88, 95, 86, 69, 82, 83, 84, 65, 80, 80, 69, 78>>,  \* 7: 'MAX_VERSTAPPEN'
    <<120>>,  \* 8: 'x'
    <<99, 97, 114, 108, 111, 115, 32, 115, 97, 105, 110, 122>>,  \* 9: 'carlos sainz'
    <<111, 39, 98, 114, 105, 101, 110>>,  \* 10: "o'brien"
    <<106, 101, 97, 110, 45, 101, 114, 105, 99, 95, 118, 101, 114, 103, 110, 101>>,  \* 11: 'jean-eric_vergne'
    <<51, 114, 100, 95, 100, 114, 105, 118, 101, 114>>,  \* 12: '3rd_driver'
    <<110, 105, 99, 111, 95, 104, 252, 108, 107, 101, 110, 98, 101, 114, 103>>,  \* 13: 'nico_h\xfclkenberg'
    <<115, 101, 114, 103, 105, 111, 95, 112, 233, 114, 101, 122>>,  \* 14: 'sergio_p\xe9rez'
    <<233, 109, 105, 108, 101, 95, 122, 111, 108, 97>>,  \* 15: '\xe9mile_zola'
    <<95, 109, 97, 120>>,  \* 16: '_max'
    <<109, 97, 120, 95>>  \* 17: 'max_'
>>

InitUtils ==
    /\ utilCall = NoCall
    /\ CoordsIdle
    /\ CompareIdle
    /\ PagesIdle

\* a page renders a driver: getDriverPortrait(driver.driverRef)
RenderPortrait ==
    /\ \E i \in 1..Len(DriverRefInputs) :
         utilCall' = [fn |-> "getDriverPortrait", arg |-> DriverRefInputs[i],
                  ret |-> getDriverPortrait(DriverRefInputs[i])]
    /\ UNCHANGED coordVars
    /\ UNCHANGED compareVars
    /\ UNCHANGED pageVars

\* a page renders a team: getTeamLogo(driver.current_team)
RenderLogo ==
    /\ \E i \in 1..Len(TeamNameInputs) :
         utilCall' = [fn |-> "getTeamLogo", arg |-> TeamNameInputs[i],
                  ret |-> getTeamLogo(TeamNameInputs[i])]
    /\ UNCHANGED coordVars
    /\ UNCHANGED compareVars
    /\ UNCHANGED pageVars

\* the API delivers the same team in upper case, or with a space before and
\* a tab after it, and the page renders it again
RespellLogo ==
    /\ utilCall.fn = "getTeamLogo"
    /\ \E s \in {toUpperCase(utilCall.arg)} \cup
                (IF utilCall.arg # <<>> /\ ~IsWhiteSpace(Head(utilCall.arg))
                 THEN {<<32>> \o utilCall.arg \o <<9>>} ELSE {}) :
         /\ s # utilCall.arg
         /\ utilCall' = [fn |-> "getTeamLogo", arg |-> s, ret |-> getTeamLogo(s)]
    /\ UNCHANGED coordVars
    /\ UNCHANGED compareVars
    /\ UNCHANGED pageVars

\* a page renders a driver's name: formatDriverName(driver.driverRef)
RenderName ==
    /\ \E i \in 1..Len(DisplayNameInputs) :
         utilCall' = [fn |-> "formatDriverName", arg |-> DisplayNameInputs[i],
                  ret |-> Str(formatDriverName(DisplayNameInputs[i]))]
    /\ UNCHANGED coordVars
    /\ UNCHANGED compareVars
    /\ UNCHANGED pageVars

\* the Compare page renders a row of the comparison table
RenderDriverCell ==
    /\ \E i \in 1..Len(DisplayNameInputs) :
         utilCall' = [fn |-> "driverCell", arg |-> DisplayNameInputs[i],
                  ret |-> Str(driverCell(DisplayNameInputs[i]))]
    /\ UNCHANGED coordVars
    /\ UNCHANGED compareVars
    /\ UNCHANGED pageVars

NextUtils == RenderPortrait \/ RenderLogo \/ RespellLogo \/ RenderName \/ RenderDriverCell

SpecUtils == InitUtils /\ [][NextUtils]_vars

----------------------------------------------------------------------------
(* The pages that load data: home, drivers, standings, dashboard, driver  *)
(* profile and API test.  ui is the React state of the mounted page,      *)
(* fetches the requests it has issued that have not settled, in the order *)
(* of issue; a response may arrive for any of them.                       *)

PageNames == {"home", "drivers", "standings", "dashboard", "profile", "apiTest"}

\* the useState initial values of each page
InitialState(p) ==
    CASE p = "home" ->
           [effectRan |-> FALSE, availableRaces |-> "empty", drivers |-> <<>>,
            loadingRaces |-> FALSE, loadingDrivers |-> FALSE, loading |-> FALSE,
            result |-> "null", error |-> NoError, searchMode |-> "select",
            selectedRaceId |-> "null", customDrivers |-> <<>>, lineupEdits |-> 0]
      [] p = "drivers" ->
           [effectRan |-> FALSE, drivers |-> "empty", loading |-> TRUE]
      [] p = "standings" ->
           [effectRan |-> FALSE, standings |-> "null", loading |-> TRUE]
      [] p = "dashboard" ->
           [effectRan |-> FALSE, stats |-> Null, loading |-> TRUE, error |-> NoError]
      [] p = "profile" ->
           [effectRan |-> FALSE, profile |-> Null, loading |-> TRUE, error |-> NoError]
      [] p = "apiTest" ->
           [status |-> "Not tested", details |-> "null", error |-> NoError]

InitPages ==
    /\ page \in PageNames
    /\ ui = InitialState(page)
    /\ fetches = <<>>
    /\ CoordsIdle
    /\ CompareIdle
    /\ UtilsIdle

RemoveAt(s, i) == SubSeq(s, 1, i - 1) \o SubSeq(s, i + 1, Len(s))

\* the indices of the outstanding requests for one data need
Outstanding(need) == {i \in 1..Len(fetches) : fetches[i].need = need}

Fetch(need) == [need |-> need]

\* the body of a non-2xx response: JSON with a detail, JSON without one, not JSON
ErrorBodies == {"detail", "noDetail", "notJson"}

\* const errorData = await response.json().catch(() => ({ detail: fallback }));
\* errorData.detail || `Error: ${response.statusText}`
detailOrStatusText(body, fallback) ==
    CASE body = "detail" -> "detail"
      [] body = "noDetail" -> "Error: statusText"
      [] body = "notJson" -> fallback

\* a step of the mounted page p: the other pages' variables stay as they are
PageStep(p) ==
    /\ page = p
    /\ UNCHANGED page
    /\ UNCHANGED coordVars
    /\ UNCHANGED compareVars
    /\ UNCHANGED utilVars

(* Home page *)

\* useEffect(() => { loadAvailableRaces(); loadDrivers(); }, [])
HomeMount ==
    /\ PageStep("home")
    /\ ~ui.effectRan
    /\ ui' = [ui EXCEPT !.effectRan = TRUE, !.loadingRaces = TRUE, !.loadingDrivers = TRUE]
    /\ fetches' = fetches \o <<Fetch("races"), Fetch("drivers")>>

\* loadAvailableRaces, response.ok: setAvailableRaces(data.races || [])
LoadAvailableRacesOk ==
    /\ PageStep("home")
    /\ \E i \in Outstanding("races") : \E races \in {"empty", "some"} :
         /\ ui' = [ui EXCEPT !.availableRaces = races, !.loadingRaces = FALSE]
         /\ fetches' = RemoveAt(fetches, i)

\* loadAvailableRaces, a non-2xx response or a rejected fetch: nothing but
\* console.error and setLoadingRaces(false)
LoadAvailableRacesFailed ==
    /\ PageStep("home")
    /\ \E i \in Outstanding("races") :
         /\ ui' = [ui EXCEPT !.loadingRaces = FALSE]
         /\ fetches' = RemoveAt(fetches, i)

\* the numbers of drivers GET /drivers answers with: none, fewer than the
\* lineup holds at first, and one more than that
DriverCounts == {0, 2, InitialLineupSize + 1}

\* data.drivers || [], the driverRefs as the numbers 1..n
DriversList(n) == [i \in 1..n |-> i]

\* (data.drivers || []).slice(0, 20).map((d, index) => ({..., grid_position:
\* index + 1}))
initialDrivers(list) ==
    [index \in 1..Min(Len(list), InitialLineupSize) |->
        [driverRef |-> list[index], grid_position |-> index]]

\* loadDrivers, response.ok: setDrivers and setCustomDrivers
LoadDriversOk ==
    /\ PageStep("home")
    /\ \E i \in Outstanding("drivers") : \E n \in DriverCounts :
         /\ ui' = [ui EXCEPT !.drivers = DriversList(n),
                             !.customDrivers = initialDrivers(DriversList(n)),
                             !.loadingDrivers = FALSE]
         /\ fetches' = RemoveAt(fetches, i)

\* loadDrivers, a non-2xx response or a rejected fetch
LoadDriversFailed ==
    /\ PageStep("home")
    /\ \E i \in Outstanding("drivers") :
         /\ ui' = [ui EXCEPT !.loadingDrivers = FALSE]
         /\ fetches' = RemoveAt(fetches, i)

\* handleRaceSelect: a marker of the map or the dropdown, rendered when the
\* races are loaded
HandleRaceSelect ==
    /\ PageStep("home")
    /\ ui.searchMode = "select" /\ ~ui.loadingRaces /\ ui.availableRaces = "some"
    /\ ui.selectedRaceId = "null"
    /\ ui' = [ui EXCEPT !.selectedRaceId = "race"]
    /\ UNCHANGED fetches

\* the two mode buttons
SetSearchMode ==
    /\ PageStep("home")
    /\ \E m \in {"select", "custom"} :
         /\ m # ui.searchMode
         /\ ui' = [ui EXCEPT !.searchMode = m]
    /\ UNCHANGED fetches

\* an edit of the custom-scenario form, which is rendered in custom mode;
\* the model follows at most MaxLineupEdits edits
LineupStep ==
    /\ PageStep("home")
    /\ ui.searchMode = "custom"
    /\ ~ui.loading
    /\ ui.lineupEdits < MaxLineupEdits
    /\ UNCHANGED fetches

\* the rows of the lineup the model edits: they are rendered once the
\* drivers are loaded
EditedRows ==
    IF ui.loadingDrivers THEN {} ELSE 1..Min(Len(ui.customDrivers), MaxEditedRow)

\* the drivers not in the lineup
AvailableDrivers ==
    {i \in 1..Len(ui.drivers) :
        \A k \in 1..Len(ui.customDrivers) : ui.customDrivers[k].driverRef # ui.drivers[i]}

\* + Add Driver: drivers.find(d => !existingRefs.has(d.driverRef)), appended
\* with grid_position prev.length + 1
AddDriver ==
    /\ LineupStep
    /\ ~ui.loadingDrivers
    /\ AvailableDrivers # {}
    /\ LET availableDriver == ui.drivers[Minimum(AvailableDrivers)]
       IN  ui' = [ui EXCEPT
                    !.customDrivers = Append(@, [driverRef |-> availableDriver,
                                                 grid_position |-> Len(@) + 1]),
                    !.lineupEdits = @ + 1]

\* Remove: prev.filter((_, i) => i !== index)
RemoveDriver ==
    /\ LineupStep
    /\ \E index \in EditedRows :
         ui' = [ui EXCEPT !.customDrivers = RemoveAt(@, index), !.lineupEdits = @ + 1]

\* the Driver select of a row: another driver of the list, the grid
\* position kept
ChangeDriver ==
    /\ LineupStep
    /\ \E index \in EditedRows : \E d \in 1..Min(Len(ui.drivers), MaxEditedRow) :
         /\ ui.customDrivers[index].driverRef # ui.drivers[d]
         /\ ui' = [ui EXCEPT !.customDrivers[index].driverRef = ui.drivers[d],
                             !.lineupEdits = @ + 1]

\* what is typed into a Grid Position input: '', '0', '2', '25', '-3', '2.5'
TypedValues == {<<>>, <<48>>, <<50>>, <<50, 53>>, <<45, 51>>, <<50, 46, 53>>}

\* Math.max(1, Math.min(20, parseInt(e.target.value) || 1))
clampGridPosition(value) ==
    LET parsed == parseInt(value)
        orOne == IF parsed.nan \/ parsed.num = 0 THEN 1 ELSE parsed.num
    IN  Max(1, Min(MaxGridPosition, orOne))

\* the Grid Position input of a row
EditGridPosition ==
    /\ LineupStep
    /\ \E index \in EditedRows : \E value \in TypedValues :
         ui' = [ui EXCEPT !.customDrivers[index].grid_position = clampGridPosition(value),
                         !.lineupEdits = @ + 1]

\* disabled={loading || (searchMode === 'select' && !selectedRaceId) ||
\*           (searchMode === 'custom' && customDrivers.length === 0)}
PredictDisabled ==
    \/ ui.loading
    \/ (ui.searchMode = "select" /\ ui.selectedRaceId = "null")
    \/ (ui.searchMode = "custom" /\ Len(ui.customDrivers) = 0)

\* customDrivers.map(d => d.grid_position)
gridPositions(customDrivers) ==
    [i \in 1..Len(customDrivers) |-> customDrivers[i].grid_position]

\* new Set(gridPositions).size
SetSize(seq) == Cardinality({seq[i] : i \in 1..Len(seq)})

\* the request of handlePredict: fetch(`${apiUrl}/predict/${selectedRaceId}`)
\* or fetch(`${apiUrl}/predict/custom`, {method: 'POST', ...})
PredictFetch(method, target, drivers) ==
    [need |-> "predict", method |-> method, target |-> target, drivers |-> drivers]

\* handlePredict without the test of the grid positions
handlePredict_NoUniqueCheck ==
    LET started == [ui EXCEPT !.loading = TRUE, !.error = NoError, !.result = "null"]
    IN  IF ui.searchMode = "select" /\ ui.selectedRaceId # "null"
        THEN /\ ui' = started
             /\ fetches' = Append(fetches, PredictFetch("GET", ui.selectedRaceId, <<>>))
        ELSE IF ui.searchMode = "custom"
        THEN IF Len(ui.customDrivers) = 0
             THEN /\ ui' = [started EXCEPT !.error = "Please add at least one driver",
                                           !.loading = FALSE]
                  /\ UNCHANGED fetches
             ELSE IF FALSE
             THEN /\ ui' = [started EXCEPT
                               !.error = "Grid positions must be unique for each driver",
                               !.loading = FALSE]
                  /\ UNCHANGED fetches
             ELSE /\ ui' = started
                  /\ fetches' = Append(fetches,
                                       PredictFetch("POST", "custom", ui.customDrivers))
        ELSE /\ ui' = [started EXCEPT !.error = "Please select a mode", !.loading = FALSE]
             /\ UNCHANGED fetches

\* handlePredict choosing the request by the selected race alone
handlePredict_IgnoresMode ==
    LET started == [ui EXCEPT !.loading = TRUE, !.error = NoError, !.result = "null"]
    IN  IF ui.selectedRaceId # "null"
        THEN /\ ui' = started
             /\ fetches' = Append(fetches, PredictFetch("GET", ui.selectedRaceId, <<>>))
        ELSE IF ui.searchMode = "custom"
        THEN IF Len(ui.customDrivers) = 0
             THEN /\ ui' = [started EXCEPT !.error = "Please add at least one driver",
                                           !.loading = FALSE]
                  /\ UNCHANGED fetches
             ELSE IF SetSize(gridPositions(ui.customDrivers)) # Len(ui.customDrivers)
             THEN /\ ui' = [started EXCEPT
                               !.error = "Grid positions must be unique for each driver",
                               !.loading = FALSE]
                  /\ UNCHANGED fetches
             ELSE /\ ui' = started
                  /\ fetches' = Append(fetches,
                                       PredictFetch("POST", "custom", ui.customDrivers))
        ELSE /\ ui' = [started EXCEPT !.error = "Please select a mode", !.loading = FALSE]
             /\ UNCHANGED fetches

\* handlePredict without setResult(null)
handlePredict_KeepsResult ==
    LET started == [ui EXCEPT !.loading = TRUE, !.error = NoError]
    IN  IF ui.searchMode = "select" /\ ui.selectedRaceId # "null"
        THEN /\ ui' = started
             /\ fetches' = Append(fetches, PredictFetch("GET", ui.selectedRaceId, <<>>))
        ELSE IF ui.searchMode = "custom"
        THEN IF Len(ui.customDrivers) = 0
             THEN /\ ui' = [started EXCEPT !.error = "Please add at least one driver",
                                           !.loading = FALSE]
                  /\ UNCHANGED fetches
             ELSE IF SetSize(gridPositions(ui.customDrivers)) # Len(ui.customDrivers)
             THEN /\ ui' = [started EXCEPT
                               !.error = "Grid positions must be unique for each driver",
                               !.loading = FALSE]
                  /\ UNCHANGED fetches
             ELSE /\ ui' = started
                  /\ fetches' = Append(fetches,
                                       PredictFetch("POST", "custom", ui.customDrivers))
        ELSE /\ ui' = [started EXCEPT !.error = "Please select a mode", !.loading = FALSE]
             /\ UNCHANGED fetches

\* handlePredict up to its first await
handlePredict ==
    LET started == [ui EXCEPT !.loading = TRUE, !.error = NoError, !.result = "null"]
    IN  IF ui.searchMode = "select" /\ ui.selectedRaceId # "null"
        THEN /\ ui' = started
             /\ fetches' = Append(fetches, PredictFetch("GET", ui.selectedRaceId, <<>>))
        ELSE IF ui.searchMode = "custom"
        THEN IF Len(ui.customDrivers) = 0
             THEN /\ ui' = [started EXCEPT !.error = "Please add at least one driver",
                                           !.loading = FALSE]
                  /\ UNCHANGED fetches
             ELSE IF SetSize(gridPositions(ui.customDrivers)) # Len(ui.customDrivers)
             THEN /\ ui' = [started EXCEPT
                               !.error = "Grid positions must be unique for each driver",
                               !.loading = FALSE]
                  /\ UNCHANGED fetches
             ELSE /\ ui' = started
                  /\ fetches' = Append(fetches,
                                       PredictFetch("POST", "custom", ui.customDrivers))
        ELSE /\ ui' = [started EXCEPT !.error = "Please select a mode", !.loading = FALSE]
             /\ UNCHANGED fetches

\* a click on Generate Prediction
ClickPredict ==
    /\ PageStep("home")
    /\ ~PredictDisabled
    /\ handlePredict

\* handlePredict after the fetch, response.ok: setResult(data)
PredictOk ==
    /\ PageStep("home")
    /\ \E i \in Outstanding("predict") :
         /\ ui' = [ui EXCEPT !.result = "result", !.loading = FALSE]
         /\ fetches' = RemoveAt(fetches, i)

\* handlePredict after the fetch, a non-2xx response with the given body
PredictNotOk(body) ==
    /\ PageStep("home")
    /\ \E i \in Outstanding("predict") :
         /\ ui' = [ui EXCEPT !.error = detailOrStatusText(body, "Failed to get prediction"),
                             !.loading = FALSE]
         /\ fetches' = RemoveAt(fetches, i)

\* the catch block of handlePredict without the finally block
PredictRejected_KeepsLoading ==
    /\ PageStep("home")
    /\ \E i \in Outstanding("predict") :
         /\ ui' = [ui EXCEPT !.error = "err.message"]
         /\ fetches' = RemoveAt(fetches, i)

\* handlePredict after the fetch: the fetch rejects, or the body of a 2xx
\* response is not JSON
PredictRejected ==
    /\ PageStep("home")
    /\ \E i \in Outstanding("predict") :
         /\ ui' = [ui EXCEPT !.error = "err.message", !.loading = FALSE]
         /\ fetches' = RemoveAt(fetches, i)

(* Drivers page *)

DriversMount ==
    /\ PageStep("drivers")
    /\ ~ui.effectRan
    /\ ui' = [ui EXCEPT !.effectRan = TRUE]
    /\ fetches' = Append(fetches, Fetch("drivers"))

\* loadDrivers of the drivers page, response.ok
DriversPageOk ==
    /\ PageStep("drivers")
    /\ \E i \in Outstanding("drivers") : \E list \in {"empty", "some"} :
         /\ ui' = [ui EXCEPT !.drivers = list, !.loading = FALSE]
         /\ fetches' = RemoveAt(fetches, i)

\* loadDrivers of the drivers page, a non-2xx response or a rejected fetch
DriversPageFailed ==
    /\ PageStep("drivers")
    /\ \E i \in Outstanding("drivers") :
         /\ ui' = [ui EXCEPT !.loading = FALSE]
         /\ fetches' = RemoveAt(fetches, i)

(* Standings page *)

\* useEffect(() => { loadStandings(); }, [year]); the year select has the one
\* option 2025
StandingsMount ==
    /\ PageStep("standings")
    /\ ~ui.effectRan
    /\ ui' = [ui EXCEPT !.effectRan = TRUE, !.loading = TRUE]
    /\ fetches' = Append(fetches, Fetch("standings"))

StandingsOk ==
    /\ PageStep("standings")
    /\ \E i \in Outstanding("standings") :
         /\ ui' = [ui EXCEPT !.standings = "standings", !.loading = FALSE]
         /\ fetches' = RemoveAt(fetches, i)

\* loadStandings, a non-2xx response or a rejected fetch
StandingsFailed ==
    /\ PageStep("standings")
    /\ \E i \in Outstanding("standings") :
         /\ ui' = [ui EXCEPT !.loading = FALSE]
         /\ fetches' = RemoveAt(fetches, i)

(* Dashboard *)

DashboardMount ==
    /\ PageStep("dashboard")
    /\ ~ui.effectRan
    /\ ui' = [ui EXCEPT !.effectRan = TRUE]
    /\ fetches' = Append(fetches, Fetch("statistics"))

\* a parsed JSON object, val the set of the fields it has
Json(fields) == [type |-> "object", val |-> fields]

\* the fields of interface Statistics that hold arrays, and the scalar one
\* the cards compute with
StatisticsFields == {"average_confidence", "top_drivers", "top_teams"}

\* the bodies of a 2xx answer of GET /statistics: null, or an object with
\* any of the fields
StatisticsBodies == {Null} \cup {Json(f) : f \in SUBSET StatisticsFields}

\* loadStatistics, a 2xx response: setStats(await response.json())
StatisticsOk ==
    /\ PageStep("dashboard")
    /\ \E i \in Outstanding("statistics") : \E body \in StatisticsBodies :
         /\ ui' = [ui EXCEPT !.stats = body, !.loading = FALSE]
         /\ fetches' = RemoveAt(fetches, i)

\* loadStatistics, a non-2xx response: the body is not read
StatisticsNotOk(body) ==
    /\ PageStep("dashboard")
    /\ \E i \in Outstanding("statistics") :
         /\ ui' = [ui EXCEPT !.error = "Failed to load statistics", !.loading = FALSE]
         /\ fetches' = RemoveAt(fetches, i)

StatisticsRejected ==
    /\ PageStep("dashboard")
    /\ \E i \in Outstanding("statistics") :
         /\ ui' = [ui EXCEPT
                     !.error = "Failed to load statistics. Make sure the backend is running.",
                     !.loading = FALSE]
         /\ fetches' = RemoveAt(fetches, i)

(* Driver profile page *)

\* useEffect(() => { if (driverRef) loadProfile(); }, [driverRef]), the route
\* having a driverRef
ProfileMount ==
    /\ PageStep("profile")
    /\ ~ui.effectRan
    /\ ui' = [ui EXCEPT !.effectRan = TRUE]
    /\ fetches' = Append(fetches, Fetch("profile"))

\* the fields of interface DriverProfile the page reads by method call or
\* Object.keys, and one it reads behind a || [] default
ProfileFields == {"driver_name", "average_predicted_position", "races_by_team", "recent_form"}

\* the bodies of a 2xx answer of GET /drivers/{driverRef}
ProfileBodies == {Null} \cup {Json(f) : f \in SUBSET ProfileFields}

\* loadProfile, a 2xx response: setProfile(await response.json())
ProfileOk ==
    /\ PageStep("profile")
    /\ \E i \in Outstanding("profile") : \E body \in ProfileBodies :
         /\ ui' = [ui EXCEPT !.profile = body, !.loading = FALSE]
         /\ fetches' = RemoveAt(fetches, i)

\* loadProfile, a non-2xx response: the body is not read
ProfileNotOk(body) ==
    /\ PageStep("profile")
    /\ \E i \in Outstanding("profile") :
         /\ ui' = [ui EXCEPT !.error = "Driver not found", !.loading = FALSE]
         /\ fetches' = RemoveAt(fetches, i)

ProfileRejected ==
    /\ PageStep("profile")
    /\ \E i \in Outstanding("profile") :
         /\ ui' = [ui EXCEPT !.error = "Failed to load driver profile", !.loading = FALSE]
         /\ fetches' = RemoveAt(fetches, i)

(* API test page *)

\* a fetch of one run of testConnection; healthOk is the run's
\* healthResponse.ok once the health fetch has resolved
TestFetch(need, healthOk) == [need |-> need, healthOk |-> healthOk]

TestNeeds == {"health", "races?year=2025", "model/status"}

\* the runs of testConnection that have not finished
TestRuns == {i \in 1..Len(fetches) : fetches[i].need \in TestNeeds}

\* a click on Test Connection; the button has no disabled attribute
TestConnection ==
    /\ PageStep("apiTest")
    /\ Cardinality(TestRuns) < MaxTestRuns
    /\ ui' = [ui EXCEPT !.status = "Testing...", !.error = NoError, !.details = "null"]
    /\ fetches' = Append(fetches, TestFetch("health", FALSE))

\* the health fetch resolves with a JSON body: the races fetch is issued
HealthResponded ==
    /\ PageStep("apiTest")
    /\ \E i \in Outstanding("health") : \E ok \in BOOLEAN :
         fetches' = [fetches EXCEPT ![i] = TestFetch("races?year=2025", ok)]
    /\ UNCHANGED ui

\* the races fetch resolves: the model status fetch is issued
RacesResponded ==
    /\ PageStep("apiTest")
    /\ \E i \in Outstanding("races?year=2025") :
         fetches' = [fetches EXCEPT ![i] = TestFetch("model/status", fetches[i].healthOk)]
    /\ UNCHANGED ui

\* the model status fetch resolves: setDetails, then the status
ModelResponded ==
    /\ PageStep("apiTest")
    /\ \E i \in Outstanding("model/status") :
         /\ ui' = [ui EXCEPT !.details = "details",
                             !.status = IF fetches[i].healthOk THEN "Connected!"
                                        ELSE "Backend responded with error"]
         /\ fetches' = RemoveAt(fetches, i)

\* a fetch of a run rejects, or a body that is read is not JSON: the catch block
TestRejected ==
    /\ PageStep("apiTest")
    /\ \E i \in TestRuns :
         /\ ui' = [ui EXCEPT !.status = "Connection Failed", !.error = "err.message"]
         /\ fetches' = RemoveAt(fetches, i)

\* what the mounted page shows as an error
ErrorShown ==
    CASE page = "home" -> ui.error # NoError
      [] page = "drivers" -> FALSE
      [] page = "standings" -> ~ui.loading /\ ui.standings = "null"
      [] page = "dashboard" -> ~ui.loading /\ (ui.error # NoError \/ ~Truthy(ui.stats))
      [] page = "profile" -> ~ui.loading /\ (ui.error # NoError \/ ~Truthy(ui.profile))
      [] page = "apiTest" -> ui.error # NoError
      [] OTHER -> FALSE

\* the error text the mounted page shows
ErrorText ==
    CASE page = "dashboard" -> IF ui.error # NoError THEN ui.error ELSE "No statistics available"
      [] page = "profile" -> IF ui.error # NoError THEN ui.error ELSE "Driver not found"
      [] page = "standings" -> "No standings data available"
      [] OTHER -> ui.error

\* what one render of Dashboard gives: the early returns of lines 438 and
\* 449, then the JSX, where stats.top_drivers.length (line 510) and
\* stats.top_teams.length (line 562) throw a TypeError on a missing field
\* and Math.round(stats.average_confidence * 100) gives NaN without throwing
RenderDashboard(s) ==
    IF s.loading THEN "loading"
    ELSE IF s.error # NoError \/ ~Truthy(s.stats) THEN "error"
    ELSE IF {"top_drivers", "top_teams"} \subseteq s.stats.val THEN "dashboard"
    ELSE "TypeError"

\* what one render of DriverProfilePage gives: the early returns of lines
\* 61 and 72, the defaulted reads of lines 86-96, then the JSX, where
\* profile.driver_name.split (line 133), profile.average_predicted_position
\* .toFixed (line 174) and Object.keys(profile.races_by_team) (line 401)
\* throw a TypeError on a missing field
RenderProfile(s) ==
    IF s.loading THEN "loading"
    ELSE IF s.error # NoError \/ ~Truthy(s.profile) THEN "error"
    ELSE IF {"driver_name", "average_predicted_position", "races_by_team"}
                \subseteq s.profile.val
         THEN "profile"
    ELSE "TypeError"

NextPages ==
    \/ HomeMount \/ LoadAvailableRacesOk \/ LoadAvailableRacesFailed
    \/ LoadDriversOk \/ LoadDriversFailed
    \/ HandleRaceSelect \/ SetSearchMode \/ ClickPredict
    \/ AddDriver \/ RemoveDriver \/ ChangeDriver \/ EditGridPosition
    \/ PredictOk \/ (\E body \in ErrorBodies : PredictNotOk(body)) \/ PredictRejected
    \/ DriversMount \/ DriversPageOk \/ DriversPageFailed
    \/ StandingsMount \/ StandingsOk \/ StandingsFailed
    \/ DashboardMount \/ StatisticsOk \/ (\E body \in ErrorBodies : StatisticsNotOk(body))
    \/ StatisticsRejected
    \/ ProfileMount \/ ProfileOk \/ (\E body \in ErrorBodies : ProfileNotOk(body))
    \/ ProfileRejected
    \/ TestConnection \/ HealthResponded \/ RacesResponded \/ ModelResponded \/ TestRejected

SpecPages == InitPages /\ [][NextPages]_vars

\* the request of handlePredict settles: the awaited fetch resolves or
\* rejects
PredictSettles ==
    PredictOk \/ (\E body \in ErrorBodies : PredictNotOk(body)) \/ PredictRejected

\* the pages with every prediction request settling in the end
SpecPagesFair == SpecPages /\ WF_vars(PredictSettles)

----------------------------------------------------------------------------
(* Properties of the geocoordinate resolver *)

Resolved == pc \in {"done", "recased"}

\* the lower-cased keys of the two tables, in table order
CircuitKeysLower == [i \in 1..Len(CIRCUIT_COORDINATES) |-> toLowerCase(CIRCUIT_COORDINATES[i].key)]

CountryKeysLower == [i \in 1..Len(COUNTRY_COORDINATES) |-> toLowerCase(COUNTRY_COORDINATES[i].key)]

\* the table entries a lower-cased value matches exactly / partially; an
\* empty value matches nothing
ExactIn(lv, keysLower) ==
    IF lv = <<>> THEN {} ELSE {i \in 1..Len(keysLower) : keysLower[i] = lv}

PartialIn(lv, keysLower) ==
    IF lv = <<>> THEN {}
    ELSE {i \in 1..Len(keysLower) : includes(lv, keysLower[i]) \/ includes(keysLower[i], lv)}

\* every search value of the model, lower-cased (letter case is all that
\* ChangeCase alters), and the entries of each table it matches
SearchValuesLower ==
    {toLowerCase(CircuitInputs[i]) : i \in 1..Len(CircuitInputs)}
    \cup {toLowerCase(LocationInputs[i]) : i \in 1..Len(LocationInputs)}
    \cup {toLowerCase(CountryInputs[i]) : i \in 1..Len(CountryInputs)}

Matches ==
    [lv \in SearchValuesLower |->
        [exactCircuit |-> ExactIn(lv, CircuitKeysLower),
         partialCircuit |-> PartialIn(lv, CircuitKeysLower),
         exactCountry |-> ExactIn(lv, CountryKeysLower),
         partialCountry |-> PartialIn(lv, CountryKeysLower)]]

ExactSet(v, keysLower) ==
    IF keysLower = CircuitKeysLower THEN Matches[toLowerCase(v)].exactCircuit
    ELSE Matches[toLowerCase(v)].exactCountry

PartialSet(v, keysLower) ==
    IF keysLower = CircuitKeysLower THEN Matches[toLowerCase(v)].partialCircuit
    ELSE Matches[toLowerCase(v)].partialCountry

First(S) == CHOOSE i \in S : \A j \in S : i <= j

CoordsAt(mapping, S) == Arr(mapping[First(S)].coords)

DefaultCoords == Arr(<<20000000, 0>>)

\* the six steps of the fallback chain: the entries each step matches, and
\* the coordinate the step yields when it matches
Step(hit, mapping) ==
    [hit |-> hit, coords |-> IF hit = {} THEN Null ELSE CoordsAt(mapping, hit)]

ChainSteps(r) == <<
    Step(ExactSet(r.circuit, CircuitKeysLower), CIRCUIT_COORDINATES),
    Step(PartialSet(r.circuit, CircuitKeysLower), CIRCUIT_COORDINATES),
    Step(ExactSet(r.location, CircuitKeysLower), CIRCUIT_COORDINATES),
    Step(PartialSet(r.location, CircuitKeysLower), CIRCUIT_COORDINATES),
    Step(ExactSet(r.country, CountryKeysLower), COUNTRY_COORDINATES),
    Step(PartialSet(r.country, CountryKeysLower), COUNTRY_COORDINATES) >>

\* C1: getRaceCoordinates is total: whatever strings the circuit, location
\* and country are, the value returned is a pair of two numbers, never null
\* and never another kind of value.
C1_AlwaysCoordinatePair ==
    Resolved => /\ result.type = "array"
                /\ Len(result.val) = 2
                /\ result.val[1] \in Int
                /\ result.val[2] \in Int

\* C2: when the circuit name equals a key of the circuit table up to letter
\* case, the result is that key's coordinate, whatever partially matching
\* keys come earlier in the table and whatever location and country hold.
C2_ExactMatchPrecedence ==
    Resolved =>
        LET exact == ExactSet(race.circuit, CircuitKeysLower) IN
        \A i \in exact : result = Arr(CIRCUIT_COORDINATES[i].coords)

\* an exact circuit match was returned although an earlier key with another
\* coordinate matches partially and the location matches a third place
C2_Witness ==
    /\ Resolved
    /\ LET exact == ExactSet(race.circuit, CircuitKeysLower)
           partial == PartialSet(race.circuit, CircuitKeysLower)
           loc == ExactSet(race.location, CircuitKeysLower)
       IN  /\ exact # {}
           /\ \E i \in partial : /\ i < First(exact)
                                 /\ Arr(CIRCUIT_COORDINATES[i].coords) # result
           /\ loc # {}
           /\ CoordsAt(CIRCUIT_COORDINATES, loc) # result
           /\ result = CoordsAt(CIRCUIT_COORDINATES, exact)

\* C3: the result is taken from the first step of the chain that matches:
\* circuit exact, circuit partial, location exact, location partial, country
\* exact, country partial; a later step counts only when no earlier one matched.
C3_OrderedFallbackChain ==
    Resolved =>
        LET steps == ChainSteps(race) IN
        \A k \in 1..6 :
            (steps[k].hit # {} /\ \A j \in 1..(k - 1) : steps[j].hit = {})
            => result = steps[k].coords

\* a partial circuit match was returned although the location matches exactly
\* and the country matches, both at other coordinates
C3_Witness ==
    /\ Resolved
    /\ LET steps == ChainSteps(race) IN
       /\ steps[1].hit = {}
       /\ steps[2].hit # {}
       /\ steps[3].hit # {}
       /\ steps[5].hit # {}
       /\ result = steps[2].coords
       /\ result # steps[3].coords
       /\ result # steps[5].coords

\* the value a local holds, the search value it was computed from and its table
FindKeyCalls == <<
    [found |-> locals.circuitMatch, search |-> race.circuit,
     keysLower |-> CircuitKeysLower, table |-> CIRCUIT_COORDINATES],
    [found |-> locals.locationMatch, search |-> race.location,
     keysLower |-> CircuitKeysLower, table |-> CIRCUIT_COORDINATES],
    [found |-> locals.countryMatch, search |-> race.country,
     keysLower |-> CountryKeysLower, table |-> COUNTRY_COORDINATES] >>

\* C4: where findKey finds no exact match, it returns the coordinate of the
\* first key, in the table's insertion order, that is contained in the
\* lower-cased search value or contains it, and null when there is no such key.
C4_PartialFirstInTableOrder ==
    Resolved =>
        \A n \in 1..3 :
            LET call == FindKeyCalls[n]
                partial == PartialSet(call.search, call.keysLower)
            IN  (/\ call.found # Unset
                 /\ call.search # <<>>
                 /\ ExactSet(call.search, call.keysLower) = {})
                => call.found = IF partial = {} THEN Null ELSE CoordsAt(call.table, partial)

\* a partial match among several matching keys with different coordinates,
\* the first containing the search value and a later one contained in it
C4_Witness ==
    /\ Resolved
    /\ LET partial == PartialSet(race.circuit, CircuitKeysLower)
           lv == toLowerCase(race.circuit)
       IN  /\ ExactSet(race.circuit, CircuitKeysLower) = {}
           /\ partial # {}
           /\ includes(CircuitKeysLower[First(partial)], lv)
           /\ \E j \in partial :
                 /\ CIRCUIT_COORDINATES[j].coords # CIRCUIT_COORDINATES[First(partial)].coords
                 /\ includes(lv, CircuitKeysLower[j])
           /\ locals.circuitMatch = CoordsAt(CIRCUIT_COORDINATES, partial)

\* C5: the default coordinate (20, 0) is returned if and only if no field has
\* an exact or partial match in its table.
C5_DefaultIffNoMatch ==
    Resolved =>
        LET steps == ChainSteps(race) IN
        (result = DefaultCoords <=> \A k \in 1..6 : steps[k].hit = {})

\* C6: changing only the letter case of the circuit, location or country
\* does not change the coordinate returned.
C6_CaseInsensitive ==
    [][ChangeCase => result' = result]_vars

----------------------------------------------------------------------------
(* Properties of the Compare page's comparison data *)

DriversOf(list) == {list[i].driverRef : i \in 1..Len(list)}

RowDrivers(rows) == {rows[i].driver : i \in 1..Len(rows)}

\* the page shows a loaded comparison whose actual results are a list
ComparisonShown == view.screen = "comparison" /\ ~data.actual_results.isNull

\* the first actual result for a driver
FirstResultIndex(driverRef) ==
    CHOOSE j \in 1..Len(data.actual_results.items) :
        /\ data.actual_results.items[j].driverRef = driverRef
        /\ \A h \in 1..(j - 1) : data.actual_results.items[h].driverRef # driverRef

\* C7: when every driver of the predictions list also appears in the actual
\* results, the comparison table has one record per prediction and is sorted
\* by ascending actual finishing position.
C7_FullMatchLengthAndOrder ==
    (ComparisonShown /\ DriversOf(data.predictions) \subseteq DriversOf(data.actual_results.items))
    => /\ Len(view.comparisonTable) = Len(data.predictions)
       /\ \A i, j \in 1..Len(view.comparisonTable) :
             i < j => view.comparisonTable[i].actual <= view.comparisonTable[j].actual

\* two predictions, both matched, whose finishing order is the reverse of
\* their order in the predictions list
C7_Witness ==
    /\ ComparisonShown
    /\ Len(data.predictions) = 2
    /\ DriversOf(data.predictions) \subseteq DriversOf(data.actual_results.items)
    /\ Len(view.comparisonTable) = 2
    /\ view.comparisonTable[1].driver = data.predictions[2].driverRef
    /\ view.comparisonTable[2].driver = data.predictions[1].driverRef
    /\ view.comparisonTable[1].actual < view.comparisonTable[2].actual

\* C8: every comparison record has error = predicted - actual, sign kept, and
\* absError = |error|, predicted and actual being those of the prediction and
\* of the (first) actual result with the record's driver identifier.
C8_SignedAndAbsoluteError ==
    ComparisonShown =>
        \A n \in 1..Len(view.comparisonTable) :
            LET row == view.comparisonTable[n] IN
            /\ \E i \in 1..Len(data.predictions) :
                  /\ data.predictions[i].driverRef = row.driver
                  /\ data.predictions[i].predicted_position = row.predicted
            /\ row.driver \in DriversOf(data.actual_results.items)
            /\ row.actual = data.actual_results.items[FirstResultIndex(row.driver)].finish_position
            /\ row.error = row.predicted - row.actual
            /\ (row.predicted < row.actual => row.error < 0)
            /\ (row.predicted > row.actual => row.error > 0)
            /\ row.absError >= 0
            /\ row.absError \in {row.error, 0 - row.error}

\* predictions A:1, B:2 against actual results A:2, B:1 give
\* A(error -1, absError 1) and B(error +1, absError 1)
C8_Witness ==
    /\ ComparisonShown
    /\ data.predictions = << [driverRef |-> "A", team |-> "T", predicted_position |-> 1],
                             [driverRef |-> "B", team |-> "T", predicted_position |-> 2] >>
    /\ data.actual_results.items = << [driverRef |-> "A", finish_position |-> 2],
                                      [driverRef |-> "B", finish_position |-> 1] >>
    /\ view.comparisonTable =
          << [driver |-> "B", team |-> "T", predicted |-> 2, actual |-> 1,
              error |-> 1, absError |-> 1],
             [driver |-> "A", team |-> "T", predicted |-> 1, actual |-> 2,
              error |-> -1, absError |-> 1] >>

\* C9: a loaded comparison with no failed load is shown without an error, and
\* it has a record for a driver exactly when the driver is both in the
\* predictions list and in the actual-results list.
C9_RecordIffInBothLists ==
    (~loading /\ ~data.isNull /\ error = NoError)
    => /\ view.screen = "comparison"
       /\ RowDrivers(view.comparisonTable) =
             IF data.actual_results.isNull THEN {}
             ELSE DriversOf(data.predictions) \cap DriversOf(data.actual_results.items)

\* one prediction is matched, one is dropped, and one actual result has no
\* prediction
C9_Witness ==
    /\ ComparisonShown
    /\ error = NoError
    /\ DriversOf(data.predictions) \ DriversOf(data.actual_results.items) # {}
    /\ DriversOf(data.actual_results.items) \ DriversOf(data.predictions) # {}
    /\ Len(view.comparisonTable) = 1
    /\ Len(data.predictions) = 2

\* the loaded comparison has null actual results and no load has failed
ActualResultsAbsent ==
    ~loading /\ ~data.isNull /\ data.actual_results.isNull /\ error = NoError

\* C10 as stated: with null actual results the comparison list and the
\* scatter data are empty, no error is shown, and the page presents the
\* predictions-only view, for any predictions list.
C10_PredictionsOnlyForAnyList ==
    ActualResultsAbsent
    => /\ view.comparisonTable = <<>>
       /\ view.scatterData = <<>>
       /\ view.screen = "comparison"
       /\ view.predictionsOnly

\* C10 amended: with null actual results the comparison list and the scatter
\* data are empty and no error is shown; the predictions-only view is
\* presented exactly when the predictions list is non-empty, and for an
\* empty list the page shows the no-prediction-data notice instead.
C10_PredictionsOnlyForNonEmptyList ==
    ActualResultsAbsent
    => /\ view.comparisonTable = <<>>
       /\ view.scatterData = <<>>
       /\ view.screen = "comparison"
       /\ view.predictionsOnly = (Len(data.predictions) > 0)
       /\ view.noPredictions = (Len(data.predictions) = 0)

\* null actual results with two predictions: the predictions-only view
C10_Witness ==
    /\ ActualResultsAbsent
    /\ Len(data.predictions) = 2
    /\ view.predictionsOnly
    /\ view.comparisonTable = <<>>

----------------------------------------------------------------------------
(* Properties of the Compare page's accuracy panel *)

\* the number of rows of the comparison table within k positions
RowsWithin(k) ==
    Cardinality({n \in 1..Len(view.comparisonTable) : view.comparisonTable[n].absError <= k})

\* pct is count / total as a percentage, rounded to the nearest integer
IsPercentOf(pct, count, total) ==
    /\ 2 * total * pct <= 200 * count + total
    /\ 200 * count + total < 2 * total * (pct + 1)

\* C11 as stated: the rates presented are within [0,1], and with zero matched
\* drivers the mean absolute error and every rate are reported, as 0.
C11_ZeroReportedForNoMatch ==
    (view.screen = "comparison" /\ ~data.accuracy.isNull)
    => /\ view.accuracy.shown
       /\ view.accuracy.exactPercent \in 0..100
       /\ view.accuracy.onePercent \in 0..100
       /\ view.accuracy.threePercent \in 0..100
       /\ (data.accuracy.total_drivers = 0
             => /\ view.accuracy.mae = 0
                /\ view.accuracy.exactPercent = 0
                /\ view.accuracy.onePercent = 0
                /\ view.accuracy.threePercent = 0)

\* C11 amended: the accuracy panel is presented exactly when there is an
\* accuracy summary with more than zero matched drivers; the rates it
\* presents are within 0%..100% and the mean absolute error is a number; with
\* zero matched drivers nothing is presented, so nothing is NaN or undefined.
C11_NoPanelForNoMatch ==
    view.screen = "comparison"
    => /\ view.accuracy.shown = (~data.accuracy.isNull /\ data.accuracy.total_drivers > 0)
       /\ (view.accuracy.shown
             => /\ view.accuracy.exactPercent \in 0..100
                /\ view.accuracy.onePercent \in 0..100
                /\ view.accuracy.threePercent \in 0..100
                /\ view.accuracy.mae \in Nat)
       /\ (~view.accuracy.shown => view.accuracy = NoMetrics)

\* predictions and actual results are there but no driver is in both: the
\* summary has zero matched drivers and the panel is not rendered
C11_Witness ==
    /\ view.screen = "comparison"
    /\ Len(data.predictions) > 0
    /\ ~data.actual_results.isNull
    /\ Len(data.actual_results.items) > 0
    /\ ~data.accuracy.isNull
    /\ data.accuracy.total_drivers = 0
    /\ ~view.accuracy.shown

----------------------------------------------------------------------------
(* Properties of the portrait, logo and display-name utilities *)

PortraitSlugs == {portraitMap[i].key : i \in 1..Len(portraitMap)}

TeamAliases == {teamMap[i].key : i \in 1..Len(teamMap)}

\* C13: getDriverPortrait returns the file mapped to the lower-cased driverRef
\* when that is a slug of the table, and null for every other string, the
\* names of built-in object properties included.
C13_PortraitOrNull ==
    utilCall.fn = "getDriverPortrait" =>
        LET slug == toLowerCase(utilCall.arg)
        IN  IF slug \in PortraitSlugs
            THEN \E i \in 1..Len(portraitMap) :
                    portraitMap[i].key = slug /\ utilCall.ret = Str(portraitMap[i].file)
            ELSE utilCall.ret = Null

\* s without its leading and trailing white space
Core(s) ==
    LET inner == {i \in 1..Len(s) : ~IsWhiteSpace(s[i])}
    IN  IF inner = {} THEN <<>>
        ELSE SubSeq(s, CHOOSE i \in inner : \A j \in inner : i <= j,
                       CHOOSE i \in inner : \A j \in inner : i >= j)

\* a and b have the same letters when case is ignored
SameIgnoringCase(a, b) ==
    Len(a) = Len(b) /\ \A i \in 1..Len(a) : LowerUnit(a[i]) = LowerUnit(b[i])

\* C14: getTeamLogo returns null for every team name that, lower-cased and
\* trimmed, is not a key of the team alias table.
C14_UnknownTeamIsNull ==
    (utilCall.fn = "getTeamLogo" /\ toLowerCase(Core(utilCall.arg)) \notin TeamAliases)
        => utilCall.ret = Null

\* the constructors of the grid and the names each one goes by (legal, short,
\* sponsor and historical names), lower-cased
ConstructorAliases == <<
    [constructor |-> "Red Bull",
     aliases |-> {<<114, 101, 100, 32, 98, 117, 108, 108, 32, 114, 97, 99, 105, 110, 103>>,
                  <<114, 101, 100, 32, 98, 117, 108, 108>>,
                  <<114, 101, 100, 98, 117, 108, 108>>}],  \* 'red bull racing', 'red bull', 'redbull'
    [constructor |-> "Racing Bulls",
     aliases |-> {<<114, 97, 99, 105, 110, 103, 32, 98, 117, 108, 108, 115>>,
                  <<114, 98>>,
                  <<97, 108, 112, 104, 97, 116, 97, 117, 114, 105>>,
                  <<118, 99, 97, 114, 98>>}],  \* 'racing bulls', 'rb', 'alphatauri', 'vcarb'
    [constructor |-> "Ferrari",
     aliases |-> {<<102, 101, 114, 114, 97, 114, 105>>}],  \* 'ferrari'
    [constructor |-> "Mercedes",
     aliases |-> {<<109, 101, 114, 99, 101, 100, 101, 115>>}],  \* 'mercedes'
    [constructor |-> "McLaren",
     aliases |-> {<<109, 99, 108, 97, 114, 101, 110>>}],  \* 'mclaren'
    [constructor |-> "Aston Martin",
     aliases |-> {<<97, 115, 116, 111, 110, 32, 109, 97, 114, 116, 105, 110>>,
                  <<97, 115, 116, 111, 110, 32, 109, 97, 114, 116, 105, 110, 32, 102, 49>>}],  \* 'aston martin', 'aston martin f1'
    [constructor |-> "Alpine",
     aliases |-> {<<97, 108, 112, 105, 110, 101>>}],  \* 'alpine'
    [constructor |-> "Williams",
     aliases |-> {<<119, 105, 108, 108, 105, 97, 109, 115>>}],  \* 'williams'
    [constructor |-> "Haas",
     aliases |-> {<<104, 97, 97, 115>>,
                  <<104, 97, 97, 115, 32, 102, 49, 32, 116, 101, 97, 109>>}],  \* 'haas', 'haas f1 team'
    [constructor |-> "Sauber",
     aliases |-> {<<115, 97, 117, 98, 101, 114>>,
                  <<107, 105, 99, 107, 32, 115, 97, 117, 98, 101, 114>>,
                  <<115, 116, 97, 107, 101, 32, 102, 49, 32, 116, 101, 97, 109>>}]  \* 'sauber', 'kick sauber', 'stake f1 team'
>>

\* the constructors that go by the name s, case and surrounding white space ignored
ConstructorsNamed(s) ==
    {ConstructorAliases[n].constructor : n \in
        {m \in 1..Len(ConstructorAliases) :
            \E a \in ConstructorAliases[m].aliases : SameIgnoringCase(a, Core(s))}}

\* C15: two calls of getTeamLogo whose inputs differ only in letter case and
\* in leading or trailing white space return the same value; two calls with
\* aliases of constructors return a logo asset each, the same asset exactly
\* when the aliases are of the same constructor.
C15_OneLogoPerConstructor ==
    [][(utilCall.fn = "getTeamLogo" /\ utilCall'.fn = "getTeamLogo") =>
        /\ SameIgnoringCase(Core(utilCall.arg), Core(utilCall'.arg))
               => utilCall'.ret = utilCall.ret
        /\ (ConstructorsNamed(utilCall.arg) # {} /\ ConstructorsNamed(utilCall'.arg) # {})
               => /\ utilCall.ret.type = "string"
                  /\ utilCall'.ret.type = "string"
                  /\ (utilCall'.ret = utilCall.ret)
                        <=> (ConstructorsNamed(utilCall'.arg) = ConstructorsNamed(utilCall.arg))
      ]_vars

\* getTeamLogo was called with '  RED BULL  ', an alias of a constructor with
\* three aliases, in upper case and between white space, and returned a logo
C15_Witness ==
    /\ utilCall.fn = "getTeamLogo"
    /\ utilCall.arg # <<>>
    /\ IsWhiteSpace(Head(utilCall.arg))
    /\ IsWhiteSpace(utilCall.arg[Len(utilCall.arg)])
    /\ utilCall.arg = toUpperCase(utilCall.arg)
    /\ ConstructorsNamed(utilCall.arg) = {"Red Bull"}
    /\ utilCall.ret.type = "string"

\* letters and digits of the Latin-1 range
IsLetter(c) ==
    \/ (c >= 65 /\ c <= 90) \/ (c >= 97 /\ c <= 122)
    \/ (c >= 192 /\ c <= 214) \/ (c >= 216 /\ c <= 246) \/ (c >= 248 /\ c <= 255)

IsDigit(c) == c >= 48 /\ c <= 57

\* every underscore a space, the first letter of each word (a run of letters
\* and digits) in upper case, every other character as it was
TitleCased(s) ==
    [i \in 1..Len(s) |->
        IF s[i] = 95 THEN 32
        ELSE IF IsLetter(s[i]) /\ (i = 1 \/ ~(IsLetter(s[i - 1]) \/ IsDigit(s[i - 1])))
        THEN UpperUnit(s[i])
        ELSE s[i]]

\* C16: formatDriverName replaces every underscore with a space and upper-cases
\* the first letter of each word, and nothing else; the empty string maps to
\* the empty string.
C16_TitleCasedWords ==
    utilCall.fn = "formatDriverName" => utilCall.ret = Str(TitleCased(utilCall.arg))

----------------------------------------------------------------------------
(* Properties of the data-loading pages *)

\* a step in which a request of the mounted page fails: a non-2xx response
\* or a rejected fetch
RequestFails ==
    \/ LoadAvailableRacesFailed \/ LoadDriversFailed
    \/ (\E body \in ErrorBodies : PredictNotOk(body)) \/ PredictRejected
    \/ DriversPageFailed
    \/ StandingsFailed
    \/ (\E body \in ErrorBodies : StatisticsNotOk(body)) \/ StatisticsRejected
    \/ (\E body \in ErrorBodies : ProfileNotOk(body)) \/ ProfileRejected

\* C17: after every failed request (races, drivers, prediction, statistics,
\* standings, driver profile) the page that issued it shows an error.
C17_FailureIsShown == [][RequestFails => ErrorShown']_vars

\* C18: after a non-2xx response to a prediction, statistics or driver
\* profile request the page shows the body's detail when the body has one,
\* and the HTTP status text when it has none.
C18_DetailElseStatusText ==
    [][\A body \in ErrorBodies :
          (PredictNotOk(body) \/ StatisticsNotOk(body) \/ ProfileNotOk(body))
              => /\ ErrorShown'
                 /\ IF body = "detail" THEN ErrorText' = "detail"
                    ELSE ErrorText' \in {"statusText", "Error: statusText"}
      ]_vars

\* the data needs of the pages
DataNeeds == {"races", "drivers", "predict", "standings", "statistics", "profile"} \cup TestNeeds

\* C19: no data need ever has more than one request outstanding, whatever
\* the sequence of clicks on Generate Prediction and on Test Connection.
C19_OneOutstandingPerNeed ==
    \A need \in DataNeeds : Cardinality(Outstanding(need)) <= 1

----------------------------------------------------------------------------
(* Properties of the Compare page under route changes *)

----------------------------------------------------------------------------
(* Properties of rendering responses that lack fields *)

\* C21: a 2xx response whose JSON lacks expected fields never makes a page
\* throw while rendering: the dashboard and the driver profile page show
\* their content, their loading screen or their error screen, never an
\* uncaught TypeError.
C21_MissingFieldsNeverCrash ==
    /\ page = "dashboard" => RenderDashboard(ui) # "TypeError"
    /\ page = "profile" => RenderProfile(ui) # "TypeError"

----------------------------------------------------------------------------
(* Properties of handlePredict and the custom-scenario lineup *)

\* the lineup handlePredict accepts: not empty, grid positions pairwise
\* distinct
ValidLineup(customDrivers) ==
    /\ Len(customDrivers) > 0
    /\ \A i, k \in 1..Len(customDrivers) :
          i # k => customDrivers[i].grid_position # customDrivers[k].grid_position

\* the requests a step issues
Issued == SubSeq(fetches', Len(fetches) + 1, Len(fetches'))

\* C22: in custom-scenario mode handlePredict sends a request only when the
\* lineup is non-empty with pairwise distinct grid positions; otherwise it
\* sends none, sets the validation message of the failed test, sets loading
\* back to false and leaves the result cleared.
C22_CustomRequestNeedsValidLineup ==
    [][(ClickPredict /\ ui.searchMode = "custom") =>
          IF ValidLineup(ui.customDrivers)
          THEN \A i \in 1..Len(Issued) :
                  Issued[i].method = "POST" /\ Issued[i].target = "custom"
          ELSE /\ fetches' = fetches
               /\ ui'.error = IF Len(ui.customDrivers) = 0
                               THEN "Please add at least one driver"
                               ELSE "Grid positions must be unique for each driver"
               /\ ~ui'.loading
               /\ ui'.result = "null"]_vars

\* handlePredict has refused a lineup with a repeated grid position
C22_Witness ==
    /\ page = "home"
    /\ ui.searchMode = "custom"
    /\ ~ValidLineup(ui.customDrivers)
    /\ ui.error = "Grid positions must be unique for each driver"
    /\ ~ui.loading
    /\ fetches = <<>>

C27_ResultXorError ==
    page = "home" => (ui.result = "null" \/ ui.error = NoError)

\* a prediction has succeeded after an earlier one had failed or been refused
C27_Witness ==
    /\ page = "home"
    /\ ui.result # "null"
    /\ ui.error = NoError
    /\ ~ui.loading

\* C28: after any sequence of lineup operations every driver of the lineup
\* has an integer grid position between 1 and 20.
C28_GridPositionsInRange ==
    page = "home" =>
        \A i \in 1..Len(ui.customDrivers) :
            ui.customDrivers[i].grid_position \in 1..MaxGridPosition

----------------------------------------------------------------------------
(* Properties of the API test page *)

\* C26: on the API test page the details panel and the error message are
\* never both set, and the status 'Connection Failed' is never shown with
\* details.
C26_DetailsXorError ==
    page = "apiTest" =>
        /\ ui.details # "null" => ui.error = NoError
        /\ ui.status = "Connection Failed" => ui.details = "null"

----------------------------------------------------------------------------
(* Properties of the scatter plot and the comparison table *)

\* how many elements of a sequence equal x
Occurrences(seq, x) == Cardinality({i \in 1..Len(seq) : seq[i] = x})

\* the driver, the two positions and the absolute error of each scatter
\* point and of each table row
ScatterPoints ==
    [i \in 1..Len(view.scatterData) |->
        <<view.scatterData[i].driver, view.scatterData[i].predicted,
          view.scatterData[i].actual, view.scatterData[i].error>>]

TableRecords ==
    [i \in 1..Len(view.comparisonTable) |->
        <<view.comparisonTable[i].driver, view.comparisonTable[i].predicted,
          view.comparisonTable[i].actual, view.comparisonTable[i].absError>>]

\* C29: the scatter plot and the comparison table hold the same drivers with
\* the same predicted and actual positions, as often, and the error of a
\* scatter point is the absError of the table record of that driver.
C29_ScatterMatchesTable ==
    /\ Len(ScatterPoints) = Len(TableRecords)
    /\ \A i \in 1..Len(ScatterPoints) :
          Occurrences(ScatterPoints, ScatterPoints[i])
              = Occurrences(TableRecords, ScatterPoints[i])

\* two matched drivers whose table order differs from the prediction order,
\* one of them with a positive error
C29_Witness ==
    /\ Len(view.scatterData) = 2
    /\ Len(view.comparisonTable) = 2
    /\ view.scatterData[1].driver # view.comparisonTable[1].driver
    /\ view.scatterData[1].predicted < view.scatterData[1].actual

\* C24: the driver name shown in a row of the comparison table is the string
\* formatDriverName returns for the driver identifier, also for identifiers
\* with two or more underscores.
C24_DriverCellIsFormatDriverName ==
    utilCall.fn = "driverCell" => utilCall.ret = Str(formatDriverName(utilCall.arg))

----------------------------------------------------------------------------
(* Properties of the Compare page leaving its loading state *)

\* the effect has run and every request it issued has settled: nothing more
\* happens to the page
CompareSettled == effectRan /\ requests = EmptyBag

\* C25: for every value of the route parameter the Compare page leaves its
\* loading state once the requests it issued have settled, and shows the
\* comparison or an error message.
C25_SettledPageHasLeftLoading ==
    CompareSettled => (~loading /\ view.screen \in {"comparison", "error"})

\* the same for the route parameters that let the effect load
C25_ValidRaceIdLeavesLoading ==
    (CompareSettled /\ RaceIdTruthy) => (~loading /\ view.screen \in {"comparison", "error"})

----------------------------------------------------------------------------
(* Properties of the loading state of the home page *)

\* the Generate Prediction button is disabled by loading
HomeLoading == page = "home" /\ ui.loading

\* C30: every invocation of handlePredict sets loading back to false once
\* its request, if any, has settled, whatever the outcome: loading never
\* stays true forever.
C30_LoadingEnds == HomeLoading ~> ~HomeLoading

\* a prediction request is in flight and the button is disabled by loading
C30_Witness ==
    /\ HomeLoading
    /\ Outstanding("predict") # {}

====
